---- MODULE Spec2Model ----
(***************************************************************************)
(* Master-table upsert engine of the webinar / NeoSerra reconciliation.    *)
(*                                                                         *)
(* The persisted state is the two master CSV files.  A cell of a file is   *)
(* its text; the empty text "" is an empty cell, which pandas reads back   *)
(* as a missing value (NaN) and writes back as an empty cell.              *)
(* run_webinar_neoserra_match is modelled from the point where the session *)
(* table (`merged`) has been computed: split, delta counters, the two      *)
(* master upserts, the people deltas and the run summary.                  *)
(***************************************************************************)
EXTENDS Integers, Sequences, FiniteSets, TLC

(***************************************************************************)
(* Bounds and value domains                                                *)
(***************************************************************************)
\* number of upserts (runs or direct calls) explored from the empty masters
MaxRuns == 2

\* email_clean values: only rows with a valid, non-missing email reach the
\* session (split_invalid_emails_from_clean keeps valid_df)
Emails == {"a@x.co", "b@x.co"}

\* webinar ids as parse_attendance_filename returns them: the text between
\* "attendee_" and the date, any characters
WebinarIds == {"007", "81", "w1"}

\* webinar dates as parse_attendance_filename returns them (20\d\d_\d\d_\d\d):
\* a calendar date and a text that matches the pattern but is no date
WebinarDates == {"2024_01_05", "2024_02_30"}

\* raw "Registration Time" cells of a Zoom export: a parseable text and an
\* unparseable one
RegistrationTimes == {"Jan 5, 2024 09:00", "tbd"}

\* position of a text in Python's string order, for the texts that occur in
\* an attendance key (sort_values on the key column compares strings)
StrRank(t) ==
    CASE t = ""           -> 0
      [] t = "007"        -> 1
      [] t = "2024-01-05" -> 2
      [] t = "7"          -> 3
      [] t = "81"         -> 4
      [] t = "a@x.co"     -> 5
      [] t = "b@x.co"     -> 6
      [] t = "w1"         -> 7
      [] OTHER            -> 8

(***************************************************************************)
(* run_summary.py: the composite attendance key                            *)
(***************************************************************************)
\* _norm_str: astype("string").fillna("").str.strip(); a missing value is
\* the empty text already and no text of the model has outer whitespace
NormStr(t) == t

\* _norm_date: "_" -> "-", to_datetime(errors="coerce"), strftime, NaT -> ""
NormDate(t) ==
    CASE NormStr(t) = "2024_01_05" -> "2024-01-05"
      [] NormStr(t) = "2024-01-05" -> "2024-01-05"
      [] OTHER                     -> ""

\* _attendance_key of one row of a data frame: email || id || date
AttendanceKey(r) ==
    <<NormStr(r["email_clean"]), NormStr(r["Webinar ID"]), NormDate(r["Webinar Date"])>>

\* string order of two keys (no text of the model is a prefix of another
\* text of the same column, so the order of the joined text is the
\* lexicographic order of the three parts)
KeyLess(k1, k2) ==
    \/ StrRank(k1[1]) < StrRank(k2[1])
    \/ /\ k1[1] = k2[1]
       /\ \/ StrRank(k1[2]) < StrRank(k2[2])
          \/ /\ k1[2] = k2[2]
             /\ StrRank(k1[3]) < StrRank(k2[3])

(***************************************************************************)
(* pandas CSV reading of the attendance master                             *)
(***************************************************************************)
\* a cell that pandas' type inference parses as an integer
IsIntText(t) == t \in {"007", "7", "81"}

\* the text of the integer a cell parses to (astype("string") of the int)
IntText(t) == IF t = "007" THEN "7" ELSE t

\* pd.read_csv(master_path): a column whose cells all parse as integers is
\* read as int64, any other column keeps its texts
ReadCsvAttendance(file) ==
    IF \A i \in 1..Len(file) : IsIntText(file[i]["Webinar ID"])
    THEN [i \in 1..Len(file) |->
            [file[i] EXCEPT !["Webinar ID"] = IntText(@)]]
    ELSE file

\* pd.to_datetime(format="mixed", errors="coerce") written with
\* date_format="%Y-%m-%d %H:%M:%S"
RegistrationTimeText(t) ==
    CASE t = "Jan 5, 2024 09:00"   -> "2024-01-05 09:00:00"
      [] t = "2024-01-05 09:00:00" -> "2024-01-05 09:00:00"
      [] OTHER                     -> ""

(***************************************************************************)
(* master_tables.py: update_attendance_master                              *)
(***************************************************************************)
\* the rows of s at the indexes idx, in order
RECURSIVE PickRows(_, _, _)
PickRows(s, idx, i) ==
    IF i > Len(s) THEN <<>>
    ELSE (IF i \in idx THEN <<s[i]>> ELSE <<>>) \o PickRows(s, idx, i + 1)

\* drop_duplicates(subset=["_att_key"], keep="first")
DropDuplicatesKeepFirst(rows) ==
    PickRows(rows,
             {i \in 1..Len(rows) :
                \A j \in 1..(i - 1) :
                    AttendanceKey(rows[j]) # AttendanceKey(rows[i])},
             1)

\* drop_duplicates(subset=["_att_key"], keep="last")
DropDuplicatesKeepLast(rows) ==
    PickRows(rows,
             {i \in 1..Len(rows) :
                \A j \in (i + 1)..Len(rows) :
                    AttendanceKey(rows[j]) # AttendanceKey(rows[i])},
             1)

\* number of rows of s that sort before s[j]: by key, equal keys by position
SortPosition(s, j) ==
    Cardinality({k \in 1..Len(s) :
        \/ KeyLess(AttendanceKey(s[k]), AttendanceKey(s[j]))
        \/ AttendanceKey(s[k]) = AttendanceKey(s[j]) /\ k < j})

\* sort_values("_att_key").reset_index(drop=True)
SortByKey(s) ==
    [i \in 1..Len(s) |->
        s[CHOOSE j \in 1..Len(s) : SortPosition(s, j) = i - 1]]

\* an upsert that appends the session rows and drops no duplicate
UpdateAttendanceMasterAppend(file, attendance_session) ==
    LET sorted == SortByKey(ReadCsvAttendance(file) \o attendance_session)
    IN  [i \in 1..Len(sorted) |->
            [sorted[i] EXCEPT
                !["Registration Time"] = RegistrationTimeText(@)]]

\* the frame update_attendance_master returns and writes: master rows as
\* read, then the session rows, deduplicated, sorted, Registration Time
\* converted
UpdateAttendanceMaster(file, attendance_session) ==
    LET combined == ReadCsvAttendance(file) \o attendance_session
        sorted   == SortByKey(DropDuplicatesKeepLast(combined))
    IN  [i \in 1..Len(sorted) |->
            [sorted[i] EXCEPT
                !["Registration Time"] = RegistrationTimeText(@)]]

(***************************************************************************)
(* master_tables.py: update_people_master                                  *)
(***************************************************************************)
\* columns of the people table (scripts/columns.py, PEOPLE_COLS): the key,
\* one general profile column, the client flag, the match type and one
\* roster column carried under the "NS " prefix
PEOPLE_COLS == {"email_clean", "Organization", "Client?", "NS Match Type",
                "NS Center"}

\* columns of the attendance table (scripts/columns.py, ATTENDANCE_COLS)
ATTENDANCE_COLS == {"email_clean", "Webinar ID", "Webinar Date",
                    "Registration Time"}

\* cols = [c for c in people_session.columns if c != key]
cols == PEOPLE_COLS \ {"email_clean"}

\* c.startswith("NS ")
StartsWithNS(c) == c \in {"NS Match Type", "NS Center"}

\* ns_cols: the "NeoSerra-ish" columns
ns_cols == {c \in cols : StartsWithNS(c) \/ c \in {"Client?", "NS Match Type"}}

\* isna() of a cell
IsNa(v) == v = ""

\* str.lower() of a match type or of a rendered flag
Lower(t) ==
    CASE t = "True"  -> "true"
      [] t = "False" -> "false"
      [] OTHER       -> t

\* a weaker mapping of the labels, ranking name_zip with email
MatchStrengthNameZipAsEmail(t) ==
    CASE Lower(t) = "email"    -> 2
      [] Lower(t) = "name_zip" -> 2
      [] Lower(t) = "name"     -> 1
      [] OTHER                 -> 0

\* _match_strength of one cell: lower, missing -> "none", map, unmapped -> 0
MatchStrength(t) ==
    CASE Lower(t) = "email" -> 2
      [] Lower(t) = "name"  -> 1
      [] Lower(t) = "none"  -> 0
      [] OTHER              -> 0

\* _to_bool(...).astype("boolean").fillna(False) of a flag cell, which is a
\* bool or the text of one ("True" / "False") or missing
ClientBool(v) == Lower(NormStr(v)) = "true"

\* a row whose columns are all missing: the side of an outer merge that has
\* no row for the key
BlankRow == [c \in PEOPLE_COLS |-> ""]

\* the emails of a frame
EmailsOf(rows) == {rows[i]["email_clean"] : i \in 1..Len(rows)}

\* the texts of S in string order
SortedTexts(S) ==
    [i \in 1..Cardinality(S) |->
        CHOOSE e \in S :
            Cardinality({f \in S : StrRank(f) < StrRank(e)}) = i - 1]

\* the rows of a frame with the given email, in order
RowsWithEmail(rows, e) ==
    PickRows(rows, {i \in 1..Len(rows) : rows[i]["email_clean"] = e}, 1)

\* the rows of the merge for one key: every master row of the key with every
\* session row of the key, a blank side where a frame has no row of the key
PairsOfKey(e, master, people_session) ==
    LET ms == IF RowsWithEmail(master, e) = <<>> THEN <<BlankRow>>
              ELSE RowsWithEmail(master, e)
        ns == IF RowsWithEmail(people_session, e) = <<>> THEN <<BlankRow>>
              ELSE RowsWithEmail(people_session, e)
    IN  [i \in 1..(Len(ms) * Len(ns)) |->
            [email_clean |-> e,
             m |-> ms[((i - 1) \div Len(ns)) + 1],
             n |-> ns[((i - 1) % Len(ns)) + 1]]]

RECURSIVE PairsOfKeys(_, _, _, _)
PairsOfKeys(keys, i, master, people_session) ==
    IF i > Len(keys) THEN <<>>
    ELSE PairsOfKey(keys[i], master, people_session)
            \o PairsOfKeys(keys, i + 1, master, people_session)

\* a merge that keeps the master's keys only (how="left")
LeftMerge(master, people_session) ==
    PairsOfKeys(SortedTexts(EmailsOf(master)), 1, master, people_session)

\* a merge whose keys never match: every master row and every session row
\* is a row of its own
UnmatchedMerge(master, people_session) ==
    [i \in 1..(Len(master) + Len(people_session)) |->
        IF i <= Len(master)
        THEN [email_clean |-> master[i]["email_clean"],
              m |-> master[i], n |-> BlankRow]
        ELSE [email_clean |-> people_session[i - Len(master)]["email_clean"],
              m |-> BlankRow, n |-> people_session[i - Len(master)]]]

\* master.merge(people_session, on="email_clean", how="outer"): one row per
\* key of either frame, keys in string order
OuterMerge(master, people_session) ==
    PairsOfKeys(SortedTexts(EmailsOf(master) \cup EmailsOf(people_session)),
                1, master, people_session)

\* stronger_match = n_strength > m_strength
StrongerMatch(pair) ==
    MatchStrength(pair.n["NS Match Type"]) > MatchStrength(pair.m["NS Match Type"])

\* client_flip = (~m_client_bool.fillna(False)) & (n_client_bool.fillna(False))
ClientFlip(pair) ==
    (~ClientBool(pair.m["Client?"])) /\ ClientBool(pair.n["Client?"])

\* the rule for a roster column without the client-flip clause
TakeNewNsNoFlip(pair, c) == IsNa(pair.m[c]) \/ StrongerMatch(pair)

\* take_new of a NeoSerra column
TakeNewNs(pair, c) == IsNa(pair.m[c]) \/ StrongerMatch(pair) \/ ClientFlip(pair)

\* the rule for a general column widened by the stronger-match clause
TakeNewGeneralOrStronger(pair, c) == IsNa(pair.m[c]) \/ StrongerMatch(pair)

\* take_new of a general column
TakeNewGeneral(pair, c) == IsNa(pair.m[c])

\* out[c] of one merged row: mval, replaced by nval where take_new holds and
\* nval is not missing
MergeCell(pair, c) ==
    LET take_new == IF c \in ns_cols THEN TakeNewNs(pair, c)
                    ELSE TakeNewGeneral(pair, c)
        mask     == take_new /\ ~IsNa(pair.n[c])
    IN  IF mask THEN pair.n[c] ELSE pair.m[c]

\* the frame update_people_master returns and writes
UpdatePeopleMaster(file, people_session) ==
    LET merged == OuterMerge(file, people_session)
    IN  [i \in 1..Len(merged) |->
            [c \in PEOPLE_COLS |->
                IF c = "email_clean" THEN merged[i].email_clean
                ELSE MergeCell(merged[i], c)]]

(***************************************************************************)
(* master_tables.py: split_people_and_attendance                           *)
(***************************************************************************)
\* session_df[columns] of one row
Project(r, columns) == [c \in columns |-> r[c]]

\* attendance_df = session_df[attendance_cols]
AttendanceOf(session_df) ==
    [i \in 1..Len(session_df) |-> Project(session_df[i], ATTENDANCE_COLS)]

\* people_df = session_df[people_cols].drop_duplicates(["email_clean"], "first")
PeopleOf(session_df) ==
    LET people == [i \in 1..Len(session_df) |->
                        Project(session_df[i], PEOPLE_COLS)]
    IN  PickRows(people,
                 {i \in 1..Len(people) :
                    \A j \in 1..(i - 1) :
                        people[j]["email_clean"] # people[i]["email_clean"]},
                 1)

(***************************************************************************)
(* run_summary.py: find_people_enriched                                    *)
(***************************************************************************)
\* missing_mask of a cell: isna() or blank after strip
IsMissing(v) == IsNa(v) \/ NormStr(v) = ""

\* the last row of a frame with the given key
\* (drop_duplicates(keep="last").set_index(key))
LastRowWithEmail(rows, e) ==
    rows[CHOOSE i \in 1..Len(rows) :
            /\ rows[i]["email_clean"] = e
            /\ \A j \in (i + 1)..Len(rows) : rows[j]["email_clean"] # e]

\* the keys of the persons that gained at least one previously missing value
FindPeopleEnriched(people_before_df, people_after_df) ==
    IF people_before_df = <<>> \/ people_after_df = <<>> THEN {}
    ELSE {e \in EmailsOf(people_before_df) \cap EmailsOf(people_after_df) :
            \E c \in cols :
                /\ IsMissing(LastRowWithEmail(people_before_df, e)[c])
                /\ ~IsMissing(LastRowWithEmail(people_after_df, e)[c])}

(***************************************************************************)
(* neoserra_helper.py: build_ns_lookup                                     *)
(***************************************************************************)
\* the parsed "Last Counseling" of a roster cell,
\* pd.to_datetime(errors="coerce"), as the number yyyymmdd; 0 is NaT (an
\* empty cell, or a text that is no date)
NaT == 0
ToDatetime(t) ==
    CASE t = "12/01/2023" -> 20231201
      [] t = "01/05/2024" -> 20240105
      [] OTHER            -> NaT

\* position of a roster key in Python's string order (sort_values on the
\* key column compares strings)
NsKeyRank(t) ==
    CASE t = "a@x.co"        -> 1
      [] t = "ann lee"       -> 2
      [] t = "ann lee|90001" -> 3
      [] t = "ann lee|90002" -> 4
      [] t = "b@x.co"        -> 5
      [] t = "|90001"        -> 6
      [] t = "|90002"        -> 7
      [] OTHER               -> 8

\* sort_values(by=[key_col, "_last_counseling_dt"], ascending=[True, True],
\* na_position="last")
CollideBeforeAscending(df, key_col, k, j) ==
    LET dk == ToDatetime(df[k]["Last Counseling"])
        dj == ToDatetime(df[j]["Last Counseling"])
    IN  \/ NsKeyRank(df[k][key_col]) < NsKeyRank(df[j][key_col])
        \/ /\ df[k][key_col] = df[j][key_col]
           /\ \/ dk # NaT /\ dj = NaT
              \/ dk # NaT /\ dj # NaT /\ dk < dj
              \/ dk = dj /\ k < j

\* sort_values(by=[key_col, "_last_counseling_dt"], ascending=[True, False],
\* na_position="last"): row k of df sorts before row j; the sort on two
\* columns is stable, rows equal in both keep their order
CollideBefore(df, key_col, k, j) ==
    LET dk == ToDatetime(df[k]["Last Counseling"])
        dj == ToDatetime(df[j]["Last Counseling"])
    IN  \/ NsKeyRank(df[k][key_col]) < NsKeyRank(df[j][key_col])
        \/ /\ df[k][key_col] = df[j][key_col]
           /\ \/ dk # NaT /\ dj = NaT
              \/ dk # NaT /\ dj # NaT /\ dk > dj
              \/ dk = dj /\ k < j

\* the rows idx of df, sorted
SortCollide(df, idx, key_col) ==
    [i \in 1..Cardinality(idx) |->
        df[CHOOSE j \in idx :
            Cardinality({k \in idx : CollideBefore(df, key_col, k, j)}) = i - 1]]

\* drop_duplicates(subset=[key_col]) that keeps every row
KeepAllOfKey(rows, key_col, i) == rows

\* drop_duplicates(subset=[key_col], keep="first")
RECURSIVE FirstOfKey(_, _, _)
FirstOfKey(rows, key_col, i) ==
    IF i > Len(rows) THEN <<>>
    ELSE (IF \A j \in 1..(i - 1) : rows[j][key_col] # rows[i][key_col]
          THEN <<rows[i]>> ELSE <<>>)
         \o FirstOfKey(rows, key_col, i + 1)

\* build_ns_lookup(ns, key_col, keep_cols, "Last Counseling"): the rows with
\* a key; the keys that occur once, in roster order, then the best row of
\* every colliding key; projected on the key and the kept columns
BuildNsLookup(ns_df, key_col, keep_cols) ==
    LET df == SelectSeq(ns_df, LAMBDA r : ~IsNa(r[key_col]))
        dup_mask == {i \in 1..Len(df) :
                        \E j \in 1..Len(df) :
                            j # i /\ df[j][key_col] = df[i][key_col]}
        df_collide == SortCollide(df, dup_mask, key_col)
        df_single == PickRows(df, (1..Len(df)) \ dup_mask, 1)
        df_collide_best == FirstOfKey(df_collide, key_col, 1)
        out == FirstOfKey(df_single \o df_collide_best, key_col, 1)
        kept == {key_col} \cup (keep_cols \ {key_col})
    IN  [i \in 1..Len(out) |-> [c \in kept |-> out[i][c]]]

(***************************************************************************)
(* match_webinar_to_neoserra.py                                            *)
(***************************************************************************)
\* columns of the cleaned webinar table and of the prepared roster that the
\* matcher reads
WEBINAR_COLS == {"email_clean", "full_name_clean", "zip_clean"}
NS_COLS == {"email_clean", "full_name_clean", "zip_clean",
            "Last Counseling", "Client ID"}

\* the result of an operation that raised instead of returning a table
Raised(e) == [error |-> e, rows |-> <<>>]
Returned(rows) == [error |-> "", rows |-> rows]

\* ns_keep_cols with the key columns left in
KeepColsUnblocked(ns_keep_cols) == ns_keep_cols

\* ns_keep_cols = [c for c in ns_keep_cols if c not in blocked]
KeepCols(ns_keep_cols) == ns_keep_cols \ {"email_clean", "full_name_clean"}

\* ns_keep_cols_fill without the protection of the webinar columns
KeepColsFillUnprotected(ns_keep_cols, protect_webinar_cols) ==
    KeepCols(ns_keep_cols)

\* ns_keep_cols_fill: with protect_webinar_cols, no column of the webinar
KeepColsFill(ns_keep_cols, protect_webinar_cols) ==
    IF protect_webinar_cols THEN KeepCols(ns_keep_cols) \ WEBINAR_COLS
    ELSE KeepCols(ns_keep_cols)

\* the "_name_zip_key" of a row: name and ZIP, a missing one as ""
NameZipKey(r) == r["full_name_clean"] \o "|" \o r["zip_clean"]

\* left.merge(right, on=key, how="left"): for every left row, in order, one
\* pair per right row of the same key, or one pair with an all-missing
\* right row
RECURSIVE MergeLeftOn(_, _, _, _, _)
MergeLeftOn(left, right, key, right_cols, i) ==
    IF i > Len(left) THEN <<>>
    ELSE LET hits == SelectSeq(right, LAMBDA r : r[key] = left[i][key])
         IN  (IF Len(hits) = 0
              THEN <<[l |-> left[i], both |-> FALSE,
                      r |-> [c \in right_cols |-> ""]]>>
              ELSE [k \in 1..Len(hits) |->
                      [l |-> left[i], both |-> TRUE, r |-> hits[k]]])
             \o MergeLeftOn(left, right, key, right_cols, i + 1)

\* Tier 1: out.merge(ns_email, on="email_clean", how="left",
\* suffixes=("", "_ns"), indicator=...): the webinar columns keep their
\* values, the lookup columns the webinar lacks are added
EmailTier(webinar_df, ns_email, keep) ==
    LET pairs == MergeLeftOn(webinar_df, ns_email, "email_clean",
                             {"email_clean"} \cup keep, 1)
    IN  [i \in 1..Len(pairs) |->
            [c \in WEBINAR_COLS \cup (keep \ WEBINAR_COLS)
                   \cup {"_email_merge_status", "ns_match_source"} |->
                CASE c \in WEBINAR_COLS -> pairs[i].l[c]
                  [] c = "_email_merge_status" ->
                        IF pairs[i].both THEN "both" ELSE "left_only"
                  [] c = "ns_match_source" ->
                        IF pairs[i].both THEN "email" ELSE "none"
                  [] OTHER -> pairs[i].r[c]]]

\* a fallback merge that counts every row as matched
FillMatchedAlways(fill_row, key) == TRUE

\* whether a row of a fallback merge matched: its Client ID is present or,
\* without that column, any lookup column is
FillMatched(fill_row, key) ==
    IF "Client ID" \in DOMAIN fill_row
    THEN ~IsNa(fill_row["Client ID"])
    ELSE \E c \in (DOMAIN fill_row) \ {key} : ~IsNa(fill_row[c])

\* one fallback tier: the rows `need` of out take the columns fill_cols
\* from the rows of the fallback merge, by position, and the label where
\* the merge matched; a merge of another length cannot be assigned
FallbackTier(out, need, fill, key, fill_cols, label) ==
    IF Len(fill) # Cardinality(need) THEN Raised("ValueError")
    ELSE Returned(
        [i \in 1..Len(out) |->
            IF i \notin need THEN out[i]
            ELSE LET f == fill[Cardinality({k \in need : k <= i})]
                 IN  [c \in DOMAIN out[i] |->
                        CASE c \in fill_cols /\ c \in DOMAIN f -> f[c]
                          [] c = "ns_match_source" /\ FillMatched(f, key)
                                -> label
                          [] OTHER -> out[i][c]]])

\* the rows of a fallback merge: the key column of the needed rows of out
\* (out_keys holds the key of every row), merged on the lookup
FallbackMerge(out_keys, need, lookup, key, keep) ==
    LET left == [k \in 1..Cardinality(need) |->
                    [c \in {key} |->
                        out_keys[CHOOSE i \in need :
                                Cardinality({j \in need : j <= i}) = k]]]
        pairs == MergeLeftOn(left, lookup, key, {key} \cup keep, 1)
    IN  [k \in 1..Len(pairs) |-> pairs[k].l @@ pairs[k].r]

\* need_name_zip without the condition on the email merge
NeedNameZipAnyStatus(out) ==
    {i \in 1..Len(out) :
        /\ ~IsNa(out[i]["full_name_clean"])
        /\ ~IsNa(out[i]["zip_clean"])}

\* need_name_zip: the email merge found nothing, name and ZIP are present
NeedNameZip(out) ==
    {i \in 1..Len(out) :
        /\ out[i]["_email_merge_status"] = "left_only"
        /\ ~IsNa(out[i]["full_name_clean"])
        /\ ~IsNa(out[i]["zip_clean"])}

\* need_name: the email merge found nothing, no name_zip match, a name
NeedName(out) ==
    {i \in 1..Len(out) :
        /\ out[i]["_email_merge_status"] = "left_only"
        /\ out[i]["ns_match_source"] = "none"
        /\ ~IsNa(out[i]["full_name_clean"])}

\* the roster with its "_name_zip_key" column
WithNameZipKey(ns_df) ==
    [i \in 1..Len(ns_df) |->
        ns_df[i] @@ [c \in {"_name_zip_key"} |-> NameZipKey(ns_df[i])]]

\* Tier 2: the rows need_name_zip of out, merged on the name and ZIP lookup
NameZipTier(out, ns_name_zip, keep, keep_fill) ==
    FallbackTier(out, NeedNameZip(out),
                 FallbackMerge([i \in 1..Len(out) |-> NameZipKey(out[i])],
                               NeedNameZip(out), ns_name_zip,
                               "_name_zip_key", keep),
                 "_name_zip_key", keep_fill, "name_zip")

\* Tier 3: the rows need_name of out, merged on the name lookup; a tier that
\* raised stays raised
NameTier(tier2, ns_name, keep, keep_fill) ==
    IF tier2.error # "" THEN tier2
    ELSE FallbackTier(tier2.rows, NeedName(tier2.rows),
                      FallbackMerge([i \in 1..Len(tier2.rows) |->
                                        tier2.rows[i]["full_name_clean"]],
                                    NeedName(tier2.rows), ns_name,
                                    "full_name_clean", keep),
                      "full_name_clean", keep_fill, "name")

\* is_client from the presence of a Client ID, and the merge indicator
\* dropped
IsClientFlag(tier3) ==
    IF tier3.error # "" THEN tier3
    ELSE Returned(
        [i \in 1..Len(tier3.rows) |->
            [c \in ((DOMAIN tier3.rows[i]) \ {"_email_merge_status"})
                   \cup {"is_client"} |->
                IF c = "is_client"
                THEN (IF "Client ID" \in DOMAIN tier3.rows[i]
                         /\ ~IsNa(tier3.rows[i]["Client ID"])
                      THEN "True" ELSE "False")
                ELSE tier3.rows[i][c]]])

\* match_webinar_to_neoserra up to the validation of email_clean: the three
\* lookups, the three tiers, the client flag
MatchTiers(webinar_df, ns_df, ns_keep_cols, protect_webinar_cols) ==
    IsClientFlag(
        NameTier(
            NameZipTier(
                EmailTier(webinar_df,
                          BuildNsLookup(ns_df, "email_clean",
                                        KeepCols(ns_keep_cols)),
                          KeepCols(ns_keep_cols)),
                BuildNsLookup(WithNameZipKey(ns_df), "_name_zip_key",
                              KeepCols(ns_keep_cols)),
                KeepCols(ns_keep_cols),
                KeepColsFill(ns_keep_cols, protect_webinar_cols)),
            BuildNsLookup(ns_df, "full_name_clean", KeepCols(ns_keep_cols)),
            KeepCols(ns_keep_cols),
            KeepColsFill(ns_keep_cols, protect_webinar_cols)))

\* (out["email_clean"].fillna("").to_numpy() != email_before).sum(): the
\* comparison of two columns of different lengths counts as a change
EmailChanged(webinar_df, out) ==
    \/ Len(out) # Len(webinar_df)
    \/ \E i \in 1..Len(out) :
            out[i]["email_clean"] # webinar_df[i]["email_clean"]

\* match_webinar_to_neoserra(webinar, ns, ns_keep_cols,
\* protect_webinar_cols=..., validate_email_unchanged=True)
MatchWebinarToNeoserra(webinar_df, ns_df, ns_keep_cols, protect_webinar_cols) ==
    LET out == MatchTiers(webinar_df, ns_df, ns_keep_cols, protect_webinar_cols)
    IN  IF out.error # "" THEN out
        ELSE IF EmailChanged(webinar_df, out.rows) THEN Raised("ValueError")
        ELSE out

(***************************************************************************)
(* overwriting.py: people_final and attendance_final                       *)
(*                                                                         *)
(* The frames of this part distinguish a missing cell (NA) from a cell     *)
(* that holds the empty text "": the overwrite sheet is read with          *)
(* fillna(""), the masters with read_csv.                                  *)
(***************************************************************************)
NA == "<NA>"

\* pd.read_csv of a master file: an empty cell is a missing value
ReadCsv(file) ==
    [i \in 1..Len(file) |->
        [c \in DOMAIN file[i] |-> IF file[i][c] = "" THEN NA ELSE file[i][c]]]

VALID_ACTIONS == {"KEEP", "REMOVE", "ADD"}

\* fillna("")
FillNa(v) == IF v = NA THEN "" ELSE v

\* astype(str) of a cell: a missing value becomes the text "nan"
AsTypeStr(v) == IF v = NA THEN "nan" ELSE v

\* fillna("").str.lower() of a review_status cell
ReviewStatus(v) ==
    CASE FillNa(v) = "Approved" -> "approved"
      [] OTHER                  -> FillNa(v)

\* fillna("").str.upper().str.strip() of an action cell
ActionOf(v) ==
    CASE FillNa(v) = "keep"    -> "KEEP"
      [] FillNa(v) = " REMOVE" -> "REMOVE"
      [] FillNa(v) = "merge"   -> "MERGE"
      [] FillNa(v) = "add "    -> "ADD"
      [] OTHER                 -> FillNa(v)

\* the gating that lets every directive through
AllRows(ow_df, require_approved) == ow_df

\* ow = ow[ow[review_status_col].fillna("").str.lower().eq("approved")]
ApprovedRows(ow_df, require_approved) ==
    IF require_approved
    THEN SelectSeq(ow_df, LAMBDA r : ReviewStatus(r["review_status"]) = "approved")
    ELSE ow_df

\* set(ow.loc[actions == a, email_col].dropna().astype(str))
EmailsWithAction(ow, a) ==
    {AsTypeStr(ow[i]["email_clean"]) :
        i \in {j \in 1..Len(ow) : /\ ActionOf(ow[j]["action"]) = a
                                  /\ ow[j]["email_clean"] # NA}}

\* to_remove without the KEEP rule
ToRemoveAll(ow) == EmailsWithAction(ow, "REMOVE")

\* to_remove = to_remove - to_keep  (KEEP wins)
ToRemove(ow) == EmailsWithAction(ow, "REMOVE") \ EmailsWithAction(ow, "KEEP")

\* a filter that drops only the first row of every removed email
FilterRemovedFirstRow(master_df, to_remove) ==
    LET final_df == [i \in 1..Len(master_df) |->
                        [master_df[i] EXCEPT
                            !["email_clean"] = AsTypeStr(@)]]
    IN  PickRows(final_df,
                 {i \in 1..Len(final_df) :
                    \/ final_df[i]["email_clean"] \notin to_remove
                    \/ \E j \in 1..(i - 1) :
                          final_df[j]["email_clean"] = final_df[i]["email_clean"]},
                 1)

\* final_df[email_col] = final_df[email_col].astype(str), then the rows
\* whose email is not in to_remove
FilterRemoved(master_df, to_remove) ==
    LET final_df == [i \in 1..Len(master_df) |->
                        [master_df[i] EXCEPT
                            !["email_clean"] = AsTypeStr(@)]]
    IN  SelectSeq(final_df, LAMBDA r : r["email_clean"] \notin to_remove)

\* add_rows.reindex(columns=people_master_df.columns), email as str, the
\* rows whose email has a positive length
AddAligned(ow, master_cols) ==
    LET add_rows == SelectSeq(ow, LAMBDA r : ActionOf(r["action"]) = "ADD")
        aligned == [i \in 1..Len(add_rows) |->
                      [c \in master_cols |->
                          IF c = "email_clean" THEN AsTypeStr(add_rows[i][c])
                          ELSE IF c \in DOMAIN add_rows[i] THEN add_rows[i][c]
                          ELSE NA]]
    IN  SelectSeq(aligned, LAMBDA r : r["email_clean"] # "")

\* the result of an apply function: the table and the info dict, or the
\* error raised with the values its message lists
Applied(rows, to_remove, added_rows) ==
    [error |-> "", invalid |-> {}, rows |-> rows,
     removed_emails |-> to_remove, added_rows |-> added_rows]
InvalidActions(invalid) ==
    [error |-> "ValueError", invalid |-> invalid, rows |-> <<>>,
     removed_emails |-> {}, added_rows |-> 0]

\* the check of the actions that accepts every action
NoInvalid(ow) == {}

\* sorted(set(actions.unique()) - (VALID_ACTIONS | {""}))
Invalid(ow) ==
    {ActionOf(ow[i]["action"]) : i \in 1..Len(ow)} \ (VALID_ACTIONS \cup {""})

\* apply_people_overwrites(people_master_df, people_overwrite_df,
\* require_approved=...)
ApplyPeopleOverwrites(people_master_df, people_overwrite, require_approved) ==
    LET ow == ApprovedRows(people_overwrite, require_approved)
        to_remove == ToRemove(ow)
        final_df == FilterRemoved(people_master_df, to_remove)
        add_aligned == AddAligned(ow, PEOPLE_COLS)
    IN  IF Invalid(ow) # {} THEN InvalidActions(Invalid(ow))
        ELSE Applied(final_df \o add_aligned, to_remove, Len(add_aligned))

\* apply_attendance_removals_from_people_overwrite(attendance_master_df,
\* people_overwrite_df, require_approved=...)
ApplyAttendanceRemovals(attendance_master_df, people_overwrite, require_approved) ==
    LET ow == ApprovedRows(people_overwrite, require_approved)
        to_remove == ToRemove(ow)
    IN  Applied(FilterRemoved(attendance_master_df, to_remove), to_remove, 0)

(***************************************************************************)
(* name_cleaning.py: find_name_collisions                                  *)
(***************************************************************************)
\* position of a canonical name in Python's string order
NameRank(t) ==
    CASE t = "ann lee"    -> 1
      [] t = "john smith" -> 2
      [] OTHER            -> 3

\* the emails of a name with the missing ones counted as an email
EmailsOfNameWithNa(people, n) ==
    {people[i]["email_clean"] :
        i \in {j \in 1..Len(people) : people[j]["full_name_clean"] = n}}

\* groupby(name_col)[email_col].nunique(dropna=True): the non-missing emails
\* of a name
EmailsOfName(people, n) ==
    {people[i]["email_clean"] :
        i \in {j \in 1..Len(people) : people[j]["full_name_clean"] = n}}
    \ {NA}

\* distinct_email_counts[n]
DistinctEmailCount(people, n) == Cardinality(EmailsOfName(people, n))

\* people[name_col].value_counts(dropna=True)[n]
NameCount(people, n) ==
    Cardinality({i \in 1..Len(people) : people[i]["full_name_clean"] = n})

\* collision_names, as a set: the names left by dropna(subset=[name_col])
\* with at least min_distinct_emails distinct emails
CollisionNames(people, min_distinct_emails) ==
    {n \in {people[i]["full_name_clean"] : i \in 1..Len(people)} \ {NA} :
        DistinctEmailCount(people, n) >= min_distinct_emails}

\* sort_values(["distinct_email_count", "name_count", name_col],
\* ascending=[False, False, True]): row k sorts before row j; rows equal in
\* the three columns keep their order
CollisionBefore(rows, k, j) ==
    LET a == rows[k]
        b == rows[j]
    IN  \/ a["distinct_email_count"] > b["distinct_email_count"]
        \/ /\ a["distinct_email_count"] = b["distinct_email_count"]
           /\ \/ a["name_count"] > b["name_count"]
              \/ /\ a["name_count"] = b["name_count"]
                 /\ \/ NameRank(a["full_name_clean"])
                            < NameRank(b["full_name_clean"])
                    \/ /\ a["full_name_clean"] = b["full_name_clean"]
                       /\ k < j

\* the rows of a frame in the order of CollisionBefore
SortCollisions(rows) ==
    [i \in 1..Len(rows) |->
        rows[CHOOSE j \in 1..Len(rows) :
            Cardinality({k \in 1..Len(rows) : CollisionBefore(rows, k, j)})
                = i - 1]]

\* find_name_collisions(people, min_distinct_emails=...): the colliding
\* names and the people rows of those names with the two counts, sorted
FindNameCollisions(people, min_distinct_emails) ==
    LET collision_names == CollisionNames(people, min_distinct_emails)
        picked == SelectSeq(people,
                    LAMBDA r : r["full_name_clean"] \in collision_names)
        counted == [i \in 1..Len(picked) |->
                        picked[i] @@
                        [c \in {"name_count", "distinct_email_count"} |->
                            IF c = "name_count"
                            THEN NameCount(people, picked[i]["full_name_clean"])
                            ELSE DistinctEmailCount(
                                    people, picked[i]["full_name_clean"])]]
    IN  [collision_names |-> collision_names,
         collisions |-> SortCollisions(counted)]

(***************************************************************************)
(* overwriting.py: the overwrite sheet                                     *)
(***************************************************************************)
REVIEW_COLS == {"action", "review_status", "reason", "notes"}
COUNT_COLS == {"name_count", "distinct_email_count"}

\* the default of a review column that a frame lacks
ReviewDefault(c) == IF c = "review_status" THEN "pending" ELSE ""

\* "if col not in df.columns: df[col] = default" for the four review columns
WithReviewCols(df) ==
    [i \in 1..Len(df) |-> df[i] @@ [c \in REVIEW_COLS |-> ReviewDefault(c)]]

\* create_people_overwrite_from_collisions(collisions_df)
CreatePeopleOverwrite(collisions_df) == WithReviewCols(collisions_df)

\* _key: df[name_col].astype(str).fillna("") + "||"
\*       + df[email_col].astype(str).fillna("")
OverwriteKey(r) ==
    AsTypeStr(r["full_name_clean"]) \o "||" \o AsTypeStr(r["email_clean"])

\* .fillna("") of the rows to append (the two counts are never missing)
FillNaRows(rows) ==
    [i \in 1..Len(rows) |->
        [c \in DOMAIN rows[i] |->
            IF c \in COUNT_COLS THEN rows[i][c] ELSE FillNa(rows[i][c])]]

\* list(df.columns) of a frame with rows
ColumnsOf(df) == IF Len(df) = 0 THEN {} ELSE DOMAIN df[1]

\* df.reindex(columns=all_cols): a column the frame lacks is missing
Reindex(df, all_cols) ==
    [i \in 1..Len(df) |->
        [c \in all_cols |-> IF c \in DOMAIN df[i] THEN df[i][c] ELSE NA]]

\* update_people_overwrite_with_new_collisions(overwrite_df, collisions_df)
UpdatePeopleOverwrite(overwrite_df, collisions_df) ==
    LET ow == WithReviewCols(overwrite_df)
        new_base == CreatePeopleOverwrite(collisions_df)
        ow_keys == {OverwriteKey(ow[i]) :
                        i \in {j \in 1..Len(ow) :
                                    ActionOf(ow[j]["action"]) # "ADD"}}
        append_df == FillNaRows(SelectSeq(new_base,
                        LAMBDA r : OverwriteKey(r) \notin ow_keys))
        all_cols == ColumnsOf(ow) \cup ColumnsOf(append_df)
        updated == Reindex(ow, all_cols) \o Reindex(append_df, all_cols)
        collision_key_set ==
            {OverwriteKey(new_base[i]) : i \in 1..Len(new_base)}
    IN  [i \in 1..Len(updated) |->
            [c \in (DOMAIN updated[i]) \cup {"still_colliding"} |->
                IF c = "still_colliding"
                THEN (IF OverwriteKey(updated[i]) \in collision_key_set
                      THEN "True" ELSE "False")
                ELSE updated[i][c]]]

\* get_unreviewed_overwrite_rows(overwrite_df, include_add=...)
GetUnreviewedOverwriteRows(overwrite_df, include_add) ==
    SelectSeq(overwrite_df,
        LAMBDA r :
            /\ ActionOf(r["action"]) \notin VALID_ACTIONS
            /\ (~include_add => ActionOf(r["action"]) # "ADD"))

(***************************************************************************)
(* zip_codes.py: update_zip_center_cache                                   *)
(*                                                                         *)
(* A row of the cache is a record of texts; a missing cell is NA.          *)
(***************************************************************************)
\* the columns of ZIP_COLS that the model carries
ZIP_COLS == {"zip_clean", "Assigned Center Abbr", "distance_miles"}

\* the columns compute_zip_to_center adds to an empty frame, in place of
\* the assignment columns of ZIP_COLS
EMPTY_ASSIGN_COLS == {"zip_clean", "assigned_center_abbr", "distance_miles"}

\* str.zfill(5) of a ZIP text
ZFill5(t) ==
    CASE t = "1234" -> "01234"
      [] t = "123"  -> "00123"
      [] OTHER      -> t

\* pd.read_csv(cache_path, dtype={"zip_clean": "string"}), then zfill(5)
ReadZipCache(file) ==
    [i \in 1..Len(file) |-> [file[i] EXCEPT !["zip_clean"] = ZFill5(@)]]

\* drop_duplicates("zip_clean", keep="first")
DropDuplicateZipsKeepFirst(rows) ==
    PickRows(rows,
             {i \in 1..Len(rows) :
                \A j \in 1..(i - 1) :
                    rows[j]["zip_clean"] # rows[i]["zip_clean"]},
             1)

\* drop_duplicates("zip_clean", keep="last")
DropDuplicateZipsKeepLast(rows) ==
    PickRows(rows,
             {i \in 1..Len(rows) :
                \A j \in (i + 1)..Len(rows) :
                    rows[j]["zip_clean"] # rows[i]["zip_clean"]},
             1)

\* update_zip_center_cache(zip_to_center_new, cache_path): the rows written
\* to cache_path; new_df holds the columns and the rows of the new frame
UpdateZipCenterCache(new_df, file) ==
    LET cache == ReadZipCache(file)
        all_cols == ColumnsOf(cache) \cup new_df.columns
        updated == IF Len(cache) = 0 THEN new_df.rows
                   ELSE Reindex(cache, all_cols)
                            \o Reindex(new_df.rows, all_cols)
    IN  DropDuplicateZipsKeepLast(updated)

(***************************************************************************)
(* State                                                                   *)
(***************************************************************************)
VARIABLES
    attendance_master,      \* rows of attendance_master.csv (<<>>: absent)
    people_master,          \* rows of people_master.csv (<<>>: absent)
    session,                \* session table of the last run or call
    attendance_before_df,   \* attendance master as the last run read it
    people_before_df,       \* people master as the last run read it
    summary,                \* RunSummary of the last run
    people_enriched_keys,   \* result["people_enriched_keys"] of the last run
    op,                     \* the last operation: "init", "run", "attendance",
                            \* "lookup", "match", "finals", "attendance_final"
    runs,                   \* number of operations so far
    ns,                     \* roster of the last lookup or match call
    key_col,                \* key column of the last build_ns_lookup call
    ns_lookup,              \* table the last build_ns_lookup call returned
    webinar,                \* webinar table of the last match call
    match_args,             \* ns_keep_cols and protect_webinar_cols of it
    matched,                \* what the last match call returned or raised
    people_overwrite_df,    \* overwrite sheet of the last apply phase
    people_final,           \* what apply_people_overwrites returned
    attendance_final,       \* what apply_attendance_removals... returned
    uploads,                \* webinar files of the current batch, in order
    continue_on_error,      \* batch option "Continue on error"
    overwrite_outputs,      \* batch option "Overwrite output CSVs"
    batch_i,                \* number of loop iterations of the batch so far
    batch_stopped,          \* the loop has ended (exhausted or break)
    batch_rows,             \* result rows of the batch so far
    batch_df,               \* st.session_state.batch_df (<<>>: None)
    output_files,           \* names of the session outputs on disk
    masters_before,         \* the master files before the last iteration
    collision_people,       \* people table of the last find_name_collisions
    min_emails,             \* its min_distinct_emails
    collision_names,        \* the names it returned
    collisions_master,      \* the table it returned
    overwrite_existing,     \* sheet given to the last overwrite update
    overwrite_updated,      \* sheet the last overwrite update returned
    unreviewed_args,        \* sheet and include_add of the last query
    unreviewed_rows,        \* rows the last unreviewed-rows query returned
    zip_cache,              \* rows of the ZIP to center cache file
    zip_cache_before,       \* the cache file before the last update
    zip_to_center_new       \* assignments given to the last cache update

masterVars == <<attendance_master, people_master, session,
                attendance_before_df, people_before_df, summary,
                people_enriched_keys>>
matchVars == <<ns, key_col, ns_lookup, webinar, match_args, matched>>
finalVars == <<people_overwrite_df, people_final, attendance_final>>

batchVars == <<uploads, continue_on_error, overwrite_outputs, batch_i,
               batch_stopped, batch_rows, batch_df, output_files,
               masters_before>>
reviewVars == <<collision_people, min_emails, collision_names,
                collisions_master, overwrite_existing, overwrite_updated,
                unreviewed_args, unreviewed_rows>>
cacheVars == <<zip_cache, zip_cache_before, zip_to_center_new>>
appVars == <<batchVars, reviewVars, cacheVars>>

vars == <<masterVars, op, runs, matchVars, finalVars, appVars>>

\* a final table that no call has produced
NotProduced ==
    [error |-> "not produced", invalid |-> {}, rows |-> <<>>,
     removed_emails |-> {}, added_rows |-> 0]

\* the app before any batch: no upload, the options at their defaults, no
\* collision table, no overwrite sheet, no cache file
InitApp ==
    /\ uploads = <<>>
    /\ continue_on_error = TRUE
    /\ overwrite_outputs = FALSE
    /\ batch_i = 0
    /\ batch_stopped = TRUE
    /\ batch_rows = <<>>
    /\ batch_df = <<>>
    /\ output_files = {}
    /\ masters_before = [attendance |-> <<>>, people |-> <<>>]
    /\ collision_people = <<>>
    /\ min_emails = 2
    /\ collision_names = {}
    /\ collisions_master = <<>>
    /\ overwrite_existing = <<>>
    /\ overwrite_updated = <<>>
    /\ unreviewed_args = [overwrite_df |-> <<>>, include_add |-> FALSE]
    /\ unreviewed_rows = <<>>
    /\ zip_cache = <<>>
    /\ zip_cache_before = <<>>
    /\ zip_to_center_new = <<>>

\* the keys of a frame
KeysOf(rows) == {AttendanceKey(rows[i]) : i \in 1..Len(rows)}

Init ==
    /\ attendance_master = <<>>
    /\ people_master = <<>>
    /\ session = <<>>
    /\ attendance_before_df = <<>>
    /\ people_before_df = <<>>
    /\ summary = [attendance_before |-> 0, attendance_after |-> 0,
                  attendance_added |-> 0, attendance_overwritten |-> 0,
                  people_before |-> 0, people_after |-> 0,
                  people_new |-> 0, people_enriched |-> 0]
    /\ people_enriched_keys = {}
    /\ op = "init"
    /\ runs = 0
    /\ ns = <<>>
    /\ key_col = ""
    /\ ns_lookup = <<>>
    /\ webinar = <<>>
    /\ match_args = [ns_keep_cols |-> {}, protect_webinar_cols |-> TRUE]
    /\ matched = Returned(<<>>)
    /\ people_overwrite_df = <<>>
    /\ people_final = NotProduced
    /\ attendance_final = NotProduced
    /\ InitApp

(***************************************************************************)
(* run_webinar_neoserra_match.py, from the split of the session table on   *)
(***************************************************************************)
RunWebinarNeoserraMatch(merged) ==
    LET people_before     == people_master
        attendance_before == ReadCsvAttendance(attendance_master)
        people_session     == PeopleOf(merged)
        attendance_session == AttendanceOf(merged)
        before_keys  == KeysOf(attendance_before)
        session_keys == KeysOf(attendance_session)
        attendance_after_df ==
            UpdateAttendanceMaster(attendance_master, attendance_session)
        people_after_df ==
            UpdatePeopleMaster(people_master, people_session)
        enriched_keys ==
            IF people_before = <<>> THEN {}
            ELSE FindPeopleEnriched(people_before, people_after_df)
    IN  /\ runs < MaxRuns
        /\ runs' = runs + 1
        /\ op' = "run"
        /\ session' = merged
        /\ attendance_before_df' = attendance_before
        /\ people_before_df' = people_before
        /\ attendance_master' = attendance_after_df
        /\ people_master' = people_after_df
        /\ people_enriched_keys' = enriched_keys
        /\ summary' =
             [attendance_before      |-> Len(attendance_before),
              attendance_after       |-> Len(attendance_after_df),
              attendance_added       |->
                    Cardinality(session_keys \ before_keys),
              attendance_overwritten |->
                    Cardinality(session_keys \cap before_keys),
              people_before          |-> Len(people_before),
              people_after           |-> Len(people_after_df),
              people_new             |->
                    Cardinality(EmailsOf(people_session)
                                    \ EmailsOf(people_before)),
              people_enriched        |-> Cardinality(enriched_keys)]
        /\ UNCHANGED <<matchVars, finalVars, appVars>>

\* a direct call of update_attendance_master with an attendance table
CallUpdateAttendanceMaster(attendance_session) ==
    /\ runs < MaxRuns
    /\ runs' = runs + 1
    /\ op' = "attendance"
    /\ session' = attendance_session
    /\ attendance_before_df' = ReadCsvAttendance(attendance_master)
    /\ attendance_master' =
            UpdateAttendanceMaster(attendance_master, attendance_session)
    /\ UNCHANGED <<people_master, people_before_df, summary,
                   people_enriched_keys, matchVars, finalVars, appVars>>

(***************************************************************************)
(* Inputs                                                                  *)
(***************************************************************************)
\* a session row of an attendee that matched nothing in the roster
UnmatchedRow(e, w, d, t) ==
    [c \in ATTENDANCE_COLS \cup PEOPLE_COLS |->
        CASE c = "email_clean"       -> e
          [] c = "Webinar ID"        -> w
          [] c = "Webinar Date"      -> d
          [] c = "Registration Time" -> t
          [] c = "Client?"           -> "False"
          [] c = "NS Match Type"     -> "none"
          [] OTHER                   -> ""]

\* session tables of one attendance file: one webinar, one row per email
\* (apply_attendance_then_dedupe keeps the first record of a person); one
\* attendee, or both
AttendanceFiles ==
    {<<UnmatchedRow(e, w, d, t)>> :
        e \in Emails, w \in WebinarIds, d \in WebinarDates,
        t \in RegistrationTimes}
    \cup
    {<<UnmatchedRow("a@x.co", w, d, "Jan 5, 2024 09:00"),
       UnmatchedRow("b@x.co", w, d, "tbd")>> :
        w \in WebinarIds, d \in WebinarDates}

\* attendance tables that repeat a key: two rows of one person and webinar
RepeatingTables ==
    {<<Project(UnmatchedRow(e, w, d, "Jan 5, 2024 09:00"), ATTENDANCE_COLS),
       Project(UnmatchedRow(e, w, d, "tbd"), ATTENDANCE_COLS)>> :
        e \in Emails, w \in WebinarIds, d \in WebinarDates}

NextAttendance ==
    \/ \E merged \in AttendanceFiles : RunWebinarNeoserraMatch(merged)
    \/ \E t \in RepeatingTables : CallUpdateAttendanceMaster(t)

SpecAttendance == Init /\ [][NextAttendance]_vars

\* values of the general column and of the roster column
Organizations == {"Acme", "Bolt"}
NSCenters == {"LBCC", "PCC"}

\* what match_webinar_to_neoserra leaves in the roster-linkage columns of a
\* row: an email match carries the roster row whatever its Client ID, a
\* name_zip or name match needs a Client ID, an unmatched row has none
RosterLinkages ==
    {[type |-> "email", client |-> cl, center |-> ce] :
        cl \in {"True", "False"}, ce \in NSCenters \cup {""}}
    \cup
    {[type |-> ty, client |-> "True", center |-> ce] :
        ty \in {"name_zip", "name"}, ce \in {"LBCC", ""}}
    \cup
    {[type |-> "none", client |-> "False", center |-> ""]}

\* a session row of the webinar w1 with the given people columns
PersonRow(e, org, link) ==
    [UnmatchedRow(e, "w1", "2024_01_05", "tbd") EXCEPT
        !["Organization"] = org,
        !["Client?"] = link.client,
        !["NS Match Type"] = link.type,
        !["NS Center"] = link.center]

\* session tables of one attendance file, by their people columns: one
\* attendee (the first with any organization, the second with none), or
\* both attendees, each matched by email or unmatched
PeopleFiles ==
    {<<PersonRow("a@x.co", org, link)>> :
        org \in Organizations \cup {""}, link \in RosterLinkages}
    \cup
    {<<PersonRow("b@x.co", "", link)>> : link \in RosterLinkages}
    \cup
    {<<PersonRow("a@x.co", "Acme", ls[1]), PersonRow("b@x.co", "", ls[2])>> :
        ls \in {[type |-> "email", client |-> "True", center |-> "LBCC"],
                [type |-> "none", client |-> "False", center |-> ""]}
               \X
               {[type |-> "email", client |-> "True", center |-> "LBCC"],
                [type |-> "none", client |-> "False", center |-> ""]}}

NextPeople ==
    \E merged \in PeopleFiles : RunWebinarNeoserraMatch(merged)

SpecPeople == Init /\ [][NextPeople]_vars

(***************************************************************************)
(* Properties of the attendance upsert                                     *)
(***************************************************************************)
\* the attendance table of the last operation
LastAttendanceSession == AttendanceOf(session)

\* the last row of an attendance table with the given key
LastRowWithKey(rows, k) ==
    rows[CHOOSE i \in 1..Len(rows) :
            /\ AttendanceKey(rows[i]) = k
            /\ \A j \in (i + 1)..Len(rows) : AttendanceKey(rows[j]) # k]

\* a session row as the master stores it
AsStored(r) == [r EXCEPT !["Registration Time"] = RegistrationTimeText(@)]

\* C1: applying the last session once more to the master it produced gives
\* a master that reads back with the same rows in the same order
C1_AttendanceUpsertIdempotent ==
    op # "init" =>
        ReadCsvAttendance(
            UpdateAttendanceMaster(attendance_master, LastAttendanceSession))
        = ReadCsvAttendance(attendance_master)

\* C2: the attendance master, as the program reads it, never holds two rows
\* with the same normalized composite key
C2_AttendanceKeyUnique ==
    LET master == ReadCsvAttendance(attendance_master)
    IN  \A i, j \in 1..Len(master) :
            i # j => AttendanceKey(master[i]) # AttendanceKey(master[j])

\* C3: after an upsert every key of the session is stored once, with the
\* last session row of that key, and the stored rows ascend by key
C3_SessionRowWinsAndSorted ==
    op # "init" =>
        /\ \A k \in KeysOf(LastAttendanceSession) :
             \E i \in 1..Len(attendance_master) :
                /\ attendance_master[i]
                     = AsStored(LastRowWithKey(LastAttendanceSession, k))
                /\ \A j \in 1..Len(attendance_master) :
                     AttendanceKey(attendance_master[j]) = k => j = i
        /\ \A i, j \in 1..Len(attendance_master) :
             i < j => KeyLess(AttendanceKey(attendance_master[i]),
                              AttendanceKey(attendance_master[j]))

\* C3 witness: a direct call whose table repeats a key that the master
\* already held with another row
C3_Witness ==
    /\ op = "attendance"
    /\ \E i \in 1..Len(attendance_before_df) :
        /\ AttendanceKey(attendance_before_df[i])
                \in KeysOf(LastAttendanceSession)
        /\ \A j \in 1..Len(attendance_master) :
                attendance_master[j] # attendance_before_df[i]
    /\ Len(LastAttendanceSession) > Cardinality(KeysOf(LastAttendanceSession))

\* C4: a run that processes the same file as the run before it reports no
\* added key, every distinct session key as overwritten, and an unchanged
\* master size
C4_RerunCounters ==
    [][(op = "run" /\ op' = "run" /\ session' = session)
        => /\ summary'.attendance_added = 0
           /\ summary'.attendance_overwritten
                = Cardinality(KeysOf(AttendanceOf(session')))
           /\ summary'.attendance_after = summary'.attendance_before]_vars

(***************************************************************************)
(* Properties of the people upsert                                         *)
(***************************************************************************)
\* the people table of the last run
LastPeopleSession == PeopleOf(session)

\* the persons of the last run that were in the master and in the session
InBoth == EmailsOf(people_before_df) \cap EmailsOf(LastPeopleSession)

\* the row of a person before the run, in the session, and after the run
Before(e) == LastRowWithEmail(people_before_df, e)
New(e) == LastRowWithEmail(LastPeopleSession, e)
After(e) == LastRowWithEmail(people_master, e)

\* the columns the claims call general and roster-linkage
GeneralColumns ==
    {c \in cols : c \notin {"Client?", "NS Match Type"} /\ ~StartsWithNS(c)}
LinkageColumns == cols \ GeneralColumns

C6_PeopleOuterUnion ==
    op = "run" =>
        /\ EmailsOf(people_master)
                = EmailsOf(people_before_df) \cup EmailsOf(LastPeopleSession)
        /\ Len(people_master) = Cardinality(EmailsOf(people_master))

\* C6 witness: the master held a person the session lacks and the session
\* brought a person the master lacked
C6_Witness ==
    /\ op = "run"
    /\ EmailsOf(people_before_df) \ EmailsOf(LastPeopleSession) # {}
    /\ EmailsOf(LastPeopleSession) \ EmailsOf(people_before_df) # {}
    /\ Len(people_master) = 2

\* C7: a populated general value of a person of the master survives the
\* run, and a general value that changed was missing and is the session's
C7_GeneralNeverOverwritten ==
    op = "run" =>
        \A e \in EmailsOf(people_before_df) : \A c \in GeneralColumns :
            /\ ~IsNa(Before(e)[c]) => After(e)[c] = Before(e)[c]
            /\ After(e)[c] # Before(e)[c]
                => /\ IsNa(Before(e)[c])
                   /\ e \in InBoth
                   /\ After(e)[c] = New(e)[c]

\* C7 witness: the session offered another value for a populated general
\* field, with a stronger match
C7_Witness ==
    /\ op = "run"
    /\ \E e \in InBoth :
        /\ Before(e)["Organization"] = "Acme"
        /\ New(e)["Organization"] = "Bolt"
        /\ MatchStrength(New(e)["NS Match Type"])
                > MatchStrength(Before(e)["NS Match Type"])

\* one of the three conditions under which a roster-linkage column may take
\* the session's value
MayTakeSession(e, c) ==
    \/ IsNa(Before(e)[c])
    \/ MatchStrength(New(e)["NS Match Type"])
            > MatchStrength(Before(e)["NS Match Type"])
    \/ Before(e)["Client?"] = "False" /\ New(e)["Client?"] = "True"

TierRank(t) ==
    CASE t = "email"    -> 3
      [] t = "name_zip" -> 2
      [] t = "name"     -> 1
      [] OTHER          -> 0

\* C9: a session whose match tier is weaker than the tier recorded in the
\* master leaves the person's roster-linkage columns as they were (sessions
\* that raise the client flag from false to true are left aside: the flip
\* rule replaces the columns on purpose)
C9_WeakerTierNeverOverwrites ==
    op = "run" =>
        \A e \in InBoth :
            (/\ TierRank(New(e)["NS Match Type"])
                    < TierRank(Before(e)["NS Match Type"])
             /\ ~(Before(e)["Client?"] = "False" /\ New(e)["Client?"] = "True"))
            => \A c \in LinkageColumns :
                    ~IsNa(Before(e)[c]) => After(e)[c] = Before(e)[c]

\* the scenario of C10: a client of the master matched by name and ZIP is
\* matched by email in the session
NameZipThenEmail(e) ==
    /\ Before(e)["NS Match Type"] = "name_zip"
    /\ Before(e)["Client?"] = "True"
    /\ New(e)["NS Match Type"] = "email"

\* C10 as stated: in the scenario the roster-linkage columns take the
\* session's values and the person is counted in people_enriched
C10_StrongerTierEnriches ==
    op = "run" =>
        \A e \in InBoth :
            NameZipThenEmail(e)
            => /\ \A c \in LinkageColumns : After(e)[c] = New(e)[c]
               /\ e \in people_enriched_keys
               /\ summary.people_enriched >= 1

\* C10 amended: in the scenario every roster-linkage column for which the
\* session has a value takes it (a column the session leaves missing keeps
\* the master's value), and the person is counted in people_enriched
\* exactly when a column that was missing in the master is populated after
\* the run
C10_StrongerTierOverwrites ==
    op = "run" =>
        /\ summary.people_enriched = Cardinality(people_enriched_keys)
        /\ \A e \in InBoth :
            NameZipThenEmail(e)
            => /\ \A c \in LinkageColumns :
                    After(e)[c] = IF IsNa(New(e)[c]) THEN Before(e)[c]
                                  ELSE New(e)[c]
               /\ e \in people_enriched_keys
                    <=> \E c \in cols :
                            IsMissing(Before(e)[c]) /\ ~IsMissing(After(e)[c])

\* C10 witness: the email match replaced a populated roster column and the
\* person gained no missing value
C10_Witness ==
    /\ op = "run"
    /\ \E e \in InBoth :
        /\ NameZipThenEmail(e)
        /\ Before(e)["NS Center"] = "LBCC"
        /\ After(e)["NS Center"] = "PCC"
        /\ e \notin people_enriched_keys

(***************************************************************************)
(* Roster matching: inputs, calls and specification                        *)
(***************************************************************************)
\* number of roster rows
MaxRoster == 3

\* roster rows as prepare_neoserra_clients leaves them (an email or a name
\* is present), without their Client ID: a person with two records, records
\* without email, without name, without a counseling date, with a text that
\* is no date, and a record that is no client
NsKinds ==
    {[email_clean |-> "a@x.co", full_name_clean |-> "ann lee",
      zip_clean |-> "90001", counseling |-> "12/01/2023", client |-> TRUE],
     [email_clean |-> "a@x.co", full_name_clean |-> "",
      zip_clean |-> "90002", counseling |-> "01/05/2024", client |-> TRUE],
     [email_clean |-> "", full_name_clean |-> "ann lee",
      zip_clean |-> "90001", counseling |-> "01/05/2024", client |-> TRUE],
     [email_clean |-> "", full_name_clean |-> "ann lee",
      zip_clean |-> "90002", counseling |-> "", client |-> TRUE],
     [email_clean |-> "", full_name_clean |-> "ann lee",
      zip_clean |-> "90001", counseling |-> "never", client |-> FALSE]}

\* the Client ID of the i-th record of the roster file
ClientIdAt(i) ==
    CASE i = 1 -> "c1" [] i = 2 -> "c2" [] i = 3 -> "c3" [] OTHER -> "c4"

\* the roster frame of a sequence of records
NsFrame(kinds) ==
    [i \in 1..Len(kinds) |->
        [c \in NS_COLS |->
            CASE c = "Last Counseling" -> kinds[i].counseling
              [] c = "Client ID" ->
                    IF kinds[i].client THEN ClientIdAt(i) ELSE ""
              [] OTHER -> kinds[i][c]]]

Rosters ==
    {NsFrame(k) : k \in UNION {[1..n -> NsKinds] : n \in 0..MaxRoster}}

\* a row of the cleaned webinar table
WebinarRow(e, n, z) ==
    [c \in WEBINAR_COLS |->
        CASE c = "email_clean" -> e
          [] c = "full_name_clean" -> n
          [] OTHER -> z]

\* rows of the second attendee: name and ZIP, name only, ZIP only, a name
\* the roster does not know
OtherAttendees ==
    {WebinarRow("b@x.co", "ann lee", "90001"),
     WebinarRow("b@x.co", "ann lee", ""),
     WebinarRow("b@x.co", "", "90001"),
     WebinarRow("b@x.co", "bo diaz", "90001")}

\* cleaned webinar tables: one row per email, one attendee or two in
\* either order
WebinarTables ==
    {<<r>> : r \in OtherAttendees \cup {WebinarRow("a@x.co", "ann lee", "90001")}}
    \cup {<<WebinarRow("a@x.co", "ann lee", "90001"), r>> : r \in OtherAttendees}
    \cup {<<r, WebinarRow("a@x.co", "ann lee", "90001")>> : r \in OtherAttendees}

\* ns_keep_cols as a caller may pass them: roster columns, with or without
\* the key columns
KeepColLists ==
    {{"Client ID"}, {"Client ID", "email_clean", "full_name_clean"}}

\* a call of build_ns_lookup on a key column of the roster
CallBuildNsLookup(ns_df, k) ==
    /\ op = "init"
    /\ op' = "lookup"
    /\ ns' = ns_df
    /\ key_col' = k
    /\ ns_lookup' = BuildNsLookup(ns_df, k, {"Client ID"})
    /\ UNCHANGED <<masterVars, runs, webinar, match_args, matched, finalVars,
                   appVars>>

\* a call of match_webinar_to_neoserra
CallMatchWebinarToNeoserra(webinar_df, ns_df, keep, protect) ==
    /\ op = "init"
    /\ op' = "match"
    /\ ns' = ns_df
    /\ webinar' = webinar_df
    /\ match_args' = [ns_keep_cols |-> keep, protect_webinar_cols |-> protect]
    /\ matched' = MatchWebinarToNeoserra(webinar_df, ns_df, keep, protect)
    /\ UNCHANGED <<masterVars, runs, key_col, ns_lookup, finalVars, appVars>>

\* one call from the initial state
NextMatch ==
    \/ /\ op = "init"
       /\ \E ns_df \in Rosters, k \in {"email_clean", "full_name_clean"} :
            CallBuildNsLookup(ns_df, k)
    \/ /\ op = "init"
       /\ \E webinar_df \in WebinarTables, ns_df \in Rosters,
             keep \in KeepColLists, protect \in BOOLEAN :
            CallMatchWebinarToNeoserra(webinar_df, ns_df, keep, protect)

SpecMatch == Init /\ [][NextMatch]_vars

\* ns_keep_cols that name a roster column the webinar table has too
SharedKeepColLists ==
    {{"Client ID", "zip_clean"},
     {"Client ID", "zip_clean", "email_clean", "full_name_clean"}}

\* one call of the matcher with such columns
NextMatchShared ==
    /\ op = "init"
    /\ \E webinar_df \in WebinarTables, ns_df \in Rosters,
          keep \in SharedKeepColLists, protect \in BOOLEAN :
            CallMatchWebinarToNeoserra(webinar_df, ns_df, keep, protect)

SpecMatchShared == Init /\ [][NextMatchShared]_vars

(***************************************************************************)
(* Claims about build_ns_lookup and match_webinar_to_neoserra              *)
(***************************************************************************)
\* the roster rows that carry the key k in the key column of the last call
RowsOfKey(k) == {i \in 1..Len(ns) : ns[i][key_col] = k}

\* the non-missing keys of the roster
RosterKeys == {ns[i][key_col] : i \in 1..Len(ns)} \ {""}

\* the row of key k that the claim selects: the latest parsed date, a
\* missing or unparseable date last, the first of equal rows
BestOfKey(k) ==
    CHOOSE i \in RowsOfKey(k) :
        \A j \in RowsOfKey(k) \ {i} :
            \/ ToDatetime(ns[i]["Last Counseling"])
                    > ToDatetime(ns[j]["Last Counseling"])
            \/ /\ ToDatetime(ns[i]["Last Counseling"])
                    = ToDatetime(ns[j]["Last Counseling"])
               /\ i < j

\* C11: build_ns_lookup returns exactly one row per non-null key of the
\* roster; for a key that several rows share it is the row with the latest
\* parsed date, missing and unparseable dates last, ties by roster order.
C11_LookupOneRowPerKeyLatest ==
    op = "lookup" =>
        /\ Len(ns_lookup) = Cardinality(RosterKeys)
        /\ \A k \in RosterKeys :
            \E i \in 1..Len(ns_lookup) :
                /\ ns_lookup[i][key_col] = k
                /\ ns_lookup[i]["Client ID"] = ns[BestOfKey(k)]["Client ID"]

\* a key shared by a row without a parsed date and a later, dated row, next
\* to a row without key: the lookup holds the dated row
C11_Witness ==
    /\ op = "lookup"
    /\ \E i \in 1..Len(ns) : ns[i][key_col] = ""
    /\ \E i, j \in 1..Len(ns) :
        /\ i < j
        /\ ns[i][key_col] = ns[j][key_col]
        /\ ns[i][key_col] # ""
        /\ ToDatetime(ns[i]["Last Counseling"]) = NaT
        /\ ToDatetime(ns[j]["Last Counseling"]) # NaT
        /\ \E r \in 1..Len(ns_lookup) :
                ns_lookup[r]["Client ID"] = ns[j]["Client ID"]

\* the arguments and the result of the last match call
LastMatchTiers ==
    MatchTiers(webinar, ns, match_args.ns_keep_cols,
               match_args.protect_webinar_cols)

\* the emails that are keys of the email lookup
EmailLookupKeys == {ns[j]["email_clean"] : j \in 1..Len(ns)} \ {""}

\* C12: every attendance row whose email_clean is a key of the email lookup
\* gets match_source "email", never "name_zip" or "name", whatever its name
\* and ZIP match in the roster.
C12_EmailMatchNeverFallsThrough ==
    op = "match" =>
        /\ matched.error = ""
        /\ \A i \in 1..Len(matched.rows) :
            matched.rows[i]["email_clean"] \in EmailLookupKeys
                => matched.rows[i]["ns_match_source"] = "email"

\* a row labelled "email" whose name and ZIP are those of another roster
\* record, a client without that email
C12_Witness ==
    /\ op = "match"
    /\ matched.error = ""
    /\ \E i \in 1..Len(matched.rows), j \in 1..Len(ns) :
        /\ matched.rows[i]["ns_match_source"] = "email"
        /\ ns[j]["email_clean"] # matched.rows[i]["email_clean"]
        /\ ns[j]["full_name_clean"] = matched.rows[i]["full_name_clean"]
        /\ ns[j]["zip_clean"] = matched.rows[i]["zip_clean"]
        /\ ns[j]["Client ID"] # ""

\* C13: match_webinar_to_neoserra returns as many rows as the attendance
\* table, in the same order, for every roster: no row is duplicated or
\* dropped by the three tiers.
C13_RowsPreserved ==
    op = "match" =>
        /\ matched.error = ""
        /\ Len(matched.rows) = Len(webinar)
        /\ \A i \in 1..Len(matched.rows) :
            \A c \in WEBINAR_COLS \ {"full_name_clean"} :
                matched.rows[i][c] = webinar[i][c]

\* two attendees matched against a roster with a repeated email, a repeated
\* name and records without email or name
C13_Witness ==
    /\ op = "match"
    /\ Len(webinar) = 2
    /\ Len(matched.rows) = 2
    /\ matched.rows[1]["email_clean"] = "b@x.co"
    /\ \E i, j \in 1..Len(ns) :
        i # j /\ ns[i]["email_clean"] = ns[j]["email_clean"]
              /\ ns[i]["email_clean"] # ""
    /\ \E i, j \in 1..Len(ns) :
        i # j /\ ns[i]["full_name_clean"] = ns[j]["full_name_clean"]
              /\ ns[i]["full_name_clean"] # ""
    /\ \E i \in 1..Len(ns) : ns[i]["email_clean"] = ""
    /\ \E i \in 1..Len(ns) : ns[i]["full_name_clean"] = ""

\* C14: email_clean and full_name_clean of every row are the same after
\* matching as before; a table whose email_clean differs is not returned,
\* the call raises.
C14_IdentityKeysUnchanged ==
    op = "match" =>
        /\ matched.error = ""
        /\ \A i \in 1..Len(matched.rows) :
            /\ matched.rows[i]["email_clean"] = webinar[i]["email_clean"]
            /\ matched.rows[i]["full_name_clean"] = webinar[i]["full_name_clean"]
        /\ (/\ LastMatchTiers.error = ""
            /\ EmailChanged(webinar, LastMatchTiers.rows))
                => matched.error = "ValueError"

\* a call that passes the key columns among ns_keep_cols and does not
\* protect the webinar columns; a row is matched by name to a roster record
\* of another email and keeps its own
C14_Witness ==
    /\ op = "match"
    /\ ~match_args.protect_webinar_cols
    /\ "email_clean" \in match_args.ns_keep_cols
    /\ matched.error = ""
    /\ \E i \in 1..Len(matched.rows), j \in 1..Len(ns) :
        /\ matched.rows[i]["ns_match_source"] \in {"name_zip", "name"}
        /\ matched.rows[i]["Client ID"] = ns[j]["Client ID"]
        /\ ns[j]["email_clean"] # matched.rows[i]["email_clean"]
        /\ matched.rows[i]["email_clean"] = webinar[i]["email_clean"]

(***************************************************************************)
(* Final tables: inputs, the apply phase of app.py and direct calls        *)
(***************************************************************************)
\* number of rows of the overwrite sheet
MaxDirectives == 2

\* people_master.csv and attendance_master.csv after some runs: two people
\* with three attendances, or one person with one
PersonFileRow(e, org, ty, cl, ce) ==
    [c \in PEOPLE_COLS |->
        CASE c = "email_clean"   -> e
          [] c = "Organization"  -> org
          [] c = "NS Match Type" -> ty
          [] c = "Client?"       -> cl
          [] OTHER               -> ce]

AttendanceFileRow(e, w) ==
    [c \in ATTENDANCE_COLS |->
        CASE c = "email_clean"  -> e
          [] c = "Webinar ID"   -> w
          [] c = "Webinar Date" -> "2024_01_05"
          [] OTHER              -> ""]

MasterFiles ==
    {[people |-> <<PersonFileRow("a@x.co", "Acme", "email", "True", "LBCC"),
                   PersonFileRow("b@x.co", "", "none", "False", "")>>,
      attendance |-> <<AttendanceFileRow("a@x.co", "81"),
                       AttendanceFileRow("a@x.co", "w1"),
                       AttendanceFileRow("b@x.co", "w1")>>],
     [people |-> <<PersonFileRow("a@x.co", "Acme", "email", "True", "LBCC")>>,
      attendance |-> <<AttendanceFileRow("a@x.co", "w1")>>]}

\* a row of the overwrite sheet: the review columns, the email and one
\* people column
Directive(a, s, e, org) ==
    [c \in {"action", "review_status", "email_clean", "Organization"} |->
        CASE c = "action"        -> a
          [] c = "review_status" -> s
          [] c = "email_clean"   -> e
          [] OTHER               -> org]

\* reviewed directives: approved ones of every action, in the spellings the
\* normalisation accepts, with a known, a new, a missing or an empty email,
\* an action outside VALID_ACTIONS, a blank action
ApprovedDirectives ==
    {Directive("KEEP", "approved", "a@x.co", "Acme"),
     Directive("keep", "Approved", "b@x.co", ""),
     Directive("REMOVE", "approved", "a@x.co", "Acme"),
     Directive(" REMOVE", "approved", "b@x.co", ""),
     Directive("REMOVE", "approved", NA, ""),
     Directive("ADD", "approved", "a@x.co", "Bolt"),
     Directive("ADD", "approved", "c@x.co", "Bolt"),
     Directive("ADD", "approved", NA, "Bolt"),
     Directive("ADD", "approved", "", "Bolt"),
     Directive("MERGE", "approved", "a@x.co", "Acme"),
     Directive("", "approved", "a@x.co", "Acme")}

\* directives that are pending, rejected or without a status
OtherDirectives ==
    {Directive("REMOVE", "pending", "a@x.co", "Acme"),
     Directive("ADD", "rejected", "c@x.co", "Bolt"),
     Directive("merge", "", "a@x.co", "Acme"),
     Directive("REMOVE", NA, "b@x.co", "")}

OverwriteSheets ==
    UNION {[1..n -> ApprovedDirectives \cup OtherDirectives] :
                n \in 0..MaxDirectives}

\* the state in which the apply phase starts: the two master files exist
InitFinals ==
    /\ \E f \in MasterFiles :
        /\ people_master = f.people
        /\ attendance_master = f.attendance
    /\ session = <<>>
    /\ attendance_before_df = <<>>
    /\ people_before_df = <<>>
    /\ summary = [attendance_before |-> 0, attendance_after |-> 0,
                  attendance_added |-> 0, attendance_overwritten |-> 0,
                  people_before |-> 0, people_after |-> 0,
                  people_new |-> 0, people_enriched |-> 0]
    /\ people_enriched_keys = {}
    /\ op = "init"
    /\ runs = 0
    /\ ns = <<>>
    /\ key_col = ""
    /\ ns_lookup = <<>>
    /\ webinar = <<>>
    /\ match_args = [ns_keep_cols |-> {}, protect_webinar_cols |-> TRUE]
    /\ matched = Returned(<<>>)
    /\ people_overwrite_df = <<>>
    /\ people_final = NotProduced
    /\ attendance_final = NotProduced
    /\ InitApp

\* the masters as the apply phase reads them
PeopleMasterDf == ReadCsv(people_master)
AttendanceMasterDf == ReadCsv(ReadCsvAttendance(attendance_master))

\* app.py, "Building people_final + attendance_final": people_final first;
\* attendance_final is built only when that call returned
BuildFinals(overwrite_df) ==
    LET people == ApplyPeopleOverwrites(PeopleMasterDf, overwrite_df, TRUE)
    IN  /\ op = "init"
        /\ op' = "finals"
        /\ people_overwrite_df' = overwrite_df
        /\ people_final' = people
        /\ attendance_final' =
                IF people.error # "" THEN NotProduced
                ELSE ApplyAttendanceRemovals(AttendanceMasterDf,
                                             overwrite_df, TRUE)
        /\ UNCHANGED <<masterVars, runs, matchVars, appVars>>

\* a direct call of apply_attendance_removals_from_people_overwrite
CallApplyAttendanceRemovals(overwrite_df) ==
    /\ op = "init"
    /\ op' = "attendance_final"
    /\ people_overwrite_df' = overwrite_df
    /\ attendance_final' =
            ApplyAttendanceRemovals(AttendanceMasterDf, overwrite_df, TRUE)
    /\ UNCHANGED <<masterVars, runs, matchVars, people_final, appVars>>

NextFinals ==
    \/ /\ op = "init"
       /\ \E overwrite_df \in OverwriteSheets : BuildFinals(overwrite_df)
    \/ /\ op = "init"
       /\ \E overwrite_df \in OverwriteSheets :
            CallApplyAttendanceRemovals(overwrite_df)

SpecFinals == InitFinals /\ [][NextFinals]_vars

(***************************************************************************)
(* Claims about the final tables                                           *)
(***************************************************************************)
\* the apply functions have run
FinalsBuilt == op \in {"finals", "attendance_final"}

\* the directives of the sheet that passed review
IsApproved(r) == r["review_status"] \in {"approved", "Approved"}

\* the emails that carry an approved directive of action a, in any of its
\* spellings
DirectedEmails(sheet, spellings) ==
    {sheet[i]["email_clean"] :
        i \in {j \in 1..Len(sheet) :
                /\ IsApproved(sheet[j])
                /\ sheet[j]["action"] \in spellings
                /\ sheet[j]["email_clean"] # NA}}

KeepEmails(sheet) == DirectedEmails(sheet, {"KEEP", "keep"})
RemoveEmails(sheet) == DirectedEmails(sheet, {"REMOVE", " REMOVE"})

\* number of rows of a table for an email
RowsFor(rows, e) ==
    Cardinality({i \in 1..Len(rows) : rows[i]["email_clean"] = e})

\* C15: KEEP beats REMOVE: an email with an approved KEEP and an approved
\* REMOVE directive keeps its rows in people-final and in attendance-final,
\* whatever the order of the directives.
C15_KeepBeatsRemove ==
    FinalsBuilt =>
        \A e \in KeepEmails(people_overwrite_df)
                    \cap RemoveEmails(people_overwrite_df) :
            /\ people_final.error = "" =>
                    RowsFor(people_final.rows, e) >= RowsFor(people_master, e)
            /\ attendance_final.error = "" =>
                    RowsFor(attendance_final.rows, e)
                        = RowsFor(attendance_master, e)

\* REMOVE first, KEEP second, for a person with two attendances
C15_Witness ==
    /\ op = "finals"
    /\ Len(people_overwrite_df) = 2
    /\ people_overwrite_df[1]["action"] = "REMOVE"
    /\ people_overwrite_df[2]["action"] = "KEEP"
    /\ "a@x.co" \in KeepEmails(people_overwrite_df)
                        \cap RemoveEmails(people_overwrite_df)
    /\ RowsFor(people_final.rows, "a@x.co") = 1
    /\ RowsFor(attendance_final.rows, "a@x.co") = 2

\* the sheet without its i-th row
WithoutRow(sheet, i) ==
    [k \in 1..(Len(sheet) - 1) |-> IF k < i THEN sheet[k] ELSE sheet[k + 1]]

\* C16: with approval gating on, a directive that is not approved (pending,
\* rejected, blank) has no effect: both final tables are what they are
\* without that row of the sheet.
C16_UnapprovedHasNoEffect ==
    FinalsBuilt =>
        \A i \in 1..Len(people_overwrite_df) :
            ~IsApproved(people_overwrite_df[i]) =>
                LET rest == WithoutRow(people_overwrite_df, i)
                IN  /\ op = "finals" =>
                        people_final =
                            ApplyPeopleOverwrites(PeopleMasterDf, rest, TRUE)
                    /\ attendance_final.error = "" =>
                        attendance_final =
                            ApplyAttendanceRemovals(AttendanceMasterDf,
                                                    rest, TRUE)

\* a pending REMOVE of a person next to an approved REMOVE of another: the
\* first stays, the second goes
C16_Witness ==
    /\ op = "finals"
    /\ \E i \in 1..Len(people_overwrite_df) :
        /\ people_overwrite_df[i]["review_status"] = "pending"
        /\ people_overwrite_df[i]["action"] = "REMOVE"
        /\ people_overwrite_df[i]["email_clean"] = "a@x.co"
    /\ people_final.removed_emails = {"b@x.co"}
    /\ RowsFor(people_final.rows, "a@x.co") = 1
    /\ RowsFor(attendance_final.rows, "a@x.co") = 2

\* to_remove as the claims define it: approved REMOVE minus approved KEEP
ToRemoveClaimed(sheet) == RemoveEmails(sheet) \ KeepEmails(sheet)

\* the approved ADD rows with a non-empty email, on the master's columns
ClaimedAdds(sheet) ==
    LET adds == SelectSeq(sheet,
                    LAMBDA r : /\ IsApproved(r)
                               /\ r["action"] = "ADD"
                               /\ r["email_clean"] \notin {NA, ""})
    IN  [i \in 1..Len(adds) |->
            [c \in PEOPLE_COLS |->
                IF c \in DOMAIN adds[i] THEN adds[i][c] ELSE NA]]

\* C17: apply_people_overwrites returns the master rows whose email is not
\* in to_remove, followed by the approved ADD rows aligned to the master's
\* columns; an ADD row with a missing or empty email is not appended.
C17_FinalIsMasterMinusRemovedPlusAdds ==
    (op = "finals" /\ people_final.error = "") =>
        people_final.rows =
            SelectSeq(PeopleMasterDf,
                      LAMBDA r : r["email_clean"]
                                    \notin ToRemoveClaimed(people_overwrite_df))
            \o ClaimedAdds(people_overwrite_df)

\* C18: people-final built from a master with one row per email has exactly
\* one row per non-null email_clean, for every set of approved directives.
C18_FinalOneRowPerEmail ==
    (op = "finals" /\ people_final.error = "") =>
        \A i, j \in 1..Len(people_final.rows) :
            (/\ i # j
             /\ people_final.rows[i]["email_clean"] # NA)
                => people_final.rows[i]["email_clean"]
                        # people_final.rows[j]["email_clean"]

\* C19: apply_attendance_removals_from_people_overwrite returns exactly the
\* attendance rows whose email is not in to_remove (approved REMOVE minus
\* approved KEEP), unchanged, and to_remove is the set that
\* apply_people_overwrites uses for the same sheet.
C19_AttendanceMinusRemoved ==
    (FinalsBuilt /\ attendance_final.error = "") =>
        /\ attendance_final.rows =
             SelectSeq(AttendanceMasterDf,
                       LAMBDA r : r["email_clean"]
                                    \notin ToRemoveClaimed(people_overwrite_df))
        /\ attendance_final.removed_emails
                = ToRemoveClaimed(people_overwrite_df)
        /\ op = "finals" =>
                attendance_final.removed_emails = people_final.removed_emails

\* a removed person with two attendances next to a person who stays
C19_Witness ==
    /\ op = "finals"
    /\ people_final.removed_emails = {"a@x.co"}
    /\ RowsFor(attendance_master, "a@x.co") = 2
    /\ RowsFor(attendance_final.rows, "a@x.co") = 0
    /\ RowsFor(attendance_final.rows, "b@x.co") = 1

\* the normalised actions of the approved directives that are neither blank
\* nor valid
InvalidApproved(sheet) ==
    {ActionOf(sheet[i]["action"]) :
        i \in {j \in 1..Len(sheet) : IsApproved(sheet[j])}}
        \ {"KEEP", "REMOVE", "ADD", ""}

\* C20 as stated: a sheet with a directive whose action is outside
\* {KEEP, REMOVE, ADD} makes the apply phase fail with an error that lists
\* the offending values and no final table is produced, in
\* apply_people_overwrites and in
\* apply_attendance_removals_from_people_overwrite (read for the directives
\* that count: approved, action not blank).
C20_InvalidActionFailsBoth ==
    (FinalsBuilt /\ InvalidApproved(people_overwrite_df) # {}) =>
        /\ op = "finals" =>
            /\ people_final.error = "ValueError"
            /\ people_final.invalid = InvalidApproved(people_overwrite_df)
        /\ op = "attendance_final" =>
            /\ attendance_final.error = "ValueError"
            /\ attendance_final.invalid = InvalidApproved(people_overwrite_df)

\* C20 amended: apply_people_overwrites fails with a ValueError listing the
\* offending values exactly when an approved directive has an action that,
\* upper-cased and trimmed, is neither blank nor KEEP, REMOVE or ADD, and
\* then the apply phase produces no final table;
\* apply_attendance_removals_from_people_overwrite validates nothing and
\* returns its table.
C20_InvalidApprovedActionFailsPeople ==
    /\ op = "finals" =>
        IF InvalidApproved(people_overwrite_df) # {}
        THEN /\ people_final.error = "ValueError"
             /\ people_final.invalid = InvalidApproved(people_overwrite_df)
             /\ people_final.rows = <<>>
             /\ attendance_final = NotProduced
        ELSE /\ people_final.error = ""
             /\ attendance_final.error = ""
    /\ op = "attendance_final" => attendance_final.error = ""

\* the apply phase stopped by an approved MERGE next to a valid directive
C20_Witness ==
    /\ op = "finals"
    /\ people_final.error = "ValueError"
    /\ people_final.invalid = {"MERGE"}
    /\ attendance_final = NotProduced
    /\ \E i \in 1..Len(people_overwrite_df) :
            people_overwrite_df[i]["action"] = "REMOVE"

(***************************************************************************)
(* run_webinar_neoserra_match on one file, and the batch loop of app.py    *)
(***************************************************************************)
MaxFiles == 2

\* parse_attendance_filename on the stem of a file name:
\* re.match(r"attendee_(.+)_(20\d{2}_\d{2}_\d{2})$", stem)
ParseAttendanceFilename(stem) ==
    CASE stem = "attendee_007_2024_01_05" ->
            [ok |-> TRUE, webinar_id |-> "007", webinar_date |-> "2024_01_05"]
      [] stem = "attendee_81_2024_01_05" ->
            [ok |-> TRUE, webinar_id |-> "81", webinar_date |-> "2024_01_05"]
      [] stem = "attendee_w1_2024_01_05" ->
            [ok |-> TRUE, webinar_id |-> "w1", webinar_date |-> "2024_01_05"]
      [] OTHER ->
            [ok |-> FALSE, webinar_id |-> "", webinar_date |-> ""]

\* an uploaded Zoom export: the stem of its name, whether it holds the
\* "Attendee Details" marker line, and the valid emails of its attendees
WebinarFile(stem, marker, attendees) ==
    [stem |-> stem, marker |-> marker, attendees |-> attendees]

\* wf.name
FileName(wf) == wf.stem \o ".csv"

\* base_path / (Path(wf.name).stem + "_with_neoserra.csv")
OutputPath(wf) == wf.stem \o "_with_neoserra.csv"

\* the session table of a file after cleaning, matching, renaming and
\* center mapping: one row per attendee, with the webinar of the file name
MergedOf(wf) ==
    [i \in 1..Len(wf.attendees) |->
        UnmatchedRow(wf.attendees[i],
                     ParseAttendanceFilename(wf.stem).webinar_id,
                     ParseAttendanceFilename(wf.stem).webinar_date,
                     "Jan 5, 2024 09:00")]

\* whether master.merge(people_session, on="email_clean") finds its key: an
\* absent master is replaced by an empty frame with the session's columns
HasKeyColumn(people_file) ==
    people_file = <<>> \/ "email_clean" \in DOMAIN people_file[1]

\* the outcome of run_webinar_neoserra_match on one file: the exception it
\* ends with ("" when it returns) and the two master files after it
RunOutcome(error, message, attendance_file, people_file) ==
    [error |-> error, message |-> message,
     attendance_master |-> attendance_file, people_master |-> people_file]

\* run_webinar_neoserra_match(webinar_file, ...) step by step: the file
\* name, the marker line of the export, the attendance upsert, the people
\* upsert
RunFile(wf, attendance_file, people_file) ==
    IF ~ParseAttendanceFilename(wf.stem).ok
    THEN RunOutcome("ValueError", "Filename doesn't match expected pattern",
                    attendance_file, people_file)
    ELSE IF ~wf.marker
    THEN RunOutcome("ValueError", "Could not find marker",
                    attendance_file, people_file)
    ELSE IF ~HasKeyColumn(people_file)
    THEN RunOutcome("KeyError", "'email_clean'",
                    UpdateAttendanceMaster(attendance_file,
                                           AttendanceOf(MergedOf(wf))),
                    people_file)
    ELSE RunOutcome("", "",
                    UpdateAttendanceMaster(attendance_file,
                                           AttendanceOf(MergedOf(wf))),
                    UpdatePeopleMaster(people_file, PeopleOf(MergedOf(wf))))

\* the except branch without the test of continue_on_error
BreaksAlways(error, option) == error # ""

\* if not continue_on_error: break
Breaks(error, option) == error # "" /\ ~option

\* the row of batch_rows for a file
BatchRow(wf, status, message) ==
    [webinar_file |-> FileName(wf), status |-> status, error |-> message]

\* the files one can upload
WebinarFiles ==
    {WebinarFile("attendee_007_2024_01_05", TRUE, <<"a@x.co">>),
     WebinarFile("attendee_81_2024_01_05", TRUE, <<"a@x.co", "b@x.co">>),
     WebinarFile("attendee_w1_2024_01_05", FALSE, <<"b@x.co">>),
     WebinarFile("attendee_81", TRUE, <<"b@x.co">>)}

\* the uploads of one batch: at least one file
RECURSIVE FileLists(_)
FileLists(n) ==
    IF n = 0 THEN {<<>>}
    ELSE {Append(l, f) : l \in FileLists(n - 1), f \in WebinarFiles}
         \cup FileLists(n - 1)

Uploads == FileLists(MaxFiles) \ {<<>>}

\* a file at people_master_path that is not a people master: no email_clean
ForeignPeopleFile ==
    <<[c \in {"Email", "Organization"} |->
        IF c = "Email" THEN "a@x.co" ELSE "Acme"]>>

\* the app starts with no master on disk, or with the people master path
\* set to a file without the key column
InitBatch ==
    /\ attendance_master = <<>>
    /\ people_master \in {<<>>, ForeignPeopleFile}
    /\ session = <<>>
    /\ attendance_before_df = <<>>
    /\ people_before_df = <<>>
    /\ summary = [attendance_before |-> 0, attendance_after |-> 0,
                  attendance_added |-> 0, attendance_overwritten |-> 0,
                  people_before |-> 0, people_after |-> 0,
                  people_new |-> 0, people_enriched |-> 0]
    /\ people_enriched_keys = {}
    /\ op = "init"
    /\ runs = 0
    /\ ns = <<>>
    /\ key_col = ""
    /\ ns_lookup = <<>>
    /\ webinar = <<>>
    /\ match_args = [ns_keep_cols |-> {}, protect_webinar_cols |-> TRUE]
    /\ matched = Returned(<<>>)
    /\ people_overwrite_df = <<>>
    /\ people_final = NotProduced
    /\ attendance_final = NotProduced
    /\ InitApp

\* "Run" pressed with the uploads files and the two batch options: the
\* stored batch results are reset and the loop starts
StartBatch(files, continue_option, overwrite_option) ==
    /\ batch_stopped
    /\ runs < MaxRuns
    /\ runs' = runs + 1
    /\ op' = "batch"
    /\ uploads' = files
    /\ continue_on_error' = continue_option
    /\ overwrite_outputs' = overwrite_option
    /\ batch_i' = 0
    /\ batch_stopped' = FALSE
    /\ batch_rows' = <<>>
    /\ batch_df' = <<>>
    /\ UNCHANGED <<masterVars, matchVars, finalVars, output_files,
                   masters_before, reviewVars, cacheVars>>

\* one iteration of "for i, wf in enumerate(webinar_files, start=1)": skip,
\* run, or except; after the last iteration or a break, batch_df is stored
ProcessFile ==
    /\ ~batch_stopped
    /\ batch_i < Len(uploads)
    /\ LET wf == uploads[batch_i + 1]
           skip == OutputPath(wf) \in output_files /\ ~overwrite_outputs
           run == RunFile(wf, attendance_master, people_master)
           row == IF skip
                  THEN BatchRow(wf, "skipped (output exists)", "")
                  ELSE IF run.error = "" THEN BatchRow(wf, "ok", "")
                  ELSE BatchRow(wf, "error: " \o run.error, run.message)
           stop == \/ ~skip /\ Breaks(run.error, continue_on_error)
                   \/ batch_i + 1 = Len(uploads)
       IN  /\ batch_i' = batch_i + 1
           /\ batch_rows' = Append(batch_rows, row)
           /\ batch_stopped' = stop
           /\ batch_df' = IF stop THEN Append(batch_rows, row) ELSE batch_df
           /\ masters_before' = [attendance |-> attendance_master,
                                 people |-> people_master]
           /\ attendance_master' =
                IF skip THEN attendance_master ELSE run.attendance_master
           /\ people_master' =
                IF skip THEN people_master ELSE run.people_master
           /\ output_files' =
                IF ~skip /\ run.error = ""
                THEN output_files \cup {OutputPath(wf)} ELSE output_files
    /\ UNCHANGED <<session, attendance_before_df, people_before_df, summary,
                   people_enriched_keys, op, runs, matchVars, finalVars,
                   uploads, continue_on_error, overwrite_outputs,
                   reviewVars, cacheVars>>

NextBatch ==
    \/ /\ batch_stopped
       /\ \E files \in Uploads, continue_option \in BOOLEAN,
             overwrite_option \in BOOLEAN :
            StartBatch(files, continue_option, overwrite_option)
    \/ ProcessFile

SpecBatch == InitBatch /\ [][NextBatch]_vars

(***************************************************************************)
(* Claims about the batch run                                              *)
(***************************************************************************)
\* the result row of the file the last iteration handled
LastBatchRow == batch_rows[Len(batch_rows)]

IsErrorRow(r) == r.status \in {"error: ValueError", "error: KeyError"}

\* C21: a file whose processing ends in an error changes neither master
\* file: after an iteration that recorded an error, the attendance master
\* and the people master are what they were before that iteration.
C21_FailedFileChangesNoMaster ==
    (op = "batch" /\ batch_i > 0 /\ IsErrorRow(LastBatchRow))
        => /\ attendance_master = masters_before.attendance
           /\ people_master = masters_before.people

\* C22: every iteration appends exactly one result row for its file, in
\* upload order, with status ok, skipped, or error with the exception type
\* and its message; with continue_on_error the loop ends only after the
\* last file; without it no iteration follows the first error.
C22_BatchLoopRows ==
    op = "batch" =>
        /\ Len(batch_rows) = batch_i
        /\ batch_i <= Len(uploads)
        /\ \A k \in 1..batch_i :
            /\ batch_rows[k].webinar_file = FileName(uploads[k])
            /\ \/ batch_rows[k].status \in {"ok", "skipped (output exists)"}
               \/ IsErrorRow(batch_rows[k]) /\ batch_rows[k].error # ""
        /\ (continue_on_error /\ batch_stopped) => batch_i = Len(uploads)
        /\ ~continue_on_error =>
            /\ \A k \in 1..(batch_i - 1) : ~IsErrorRow(batch_rows[k])
            /\ (batch_i > 0 /\ IsErrorRow(LastBatchRow)) => batch_stopped
        /\ batch_stopped => batch_df = batch_rows

\* a batch with continue_on_error whose first file failed and whose second
\* file was processed
C22_Witness ==
    /\ op = "batch"
    /\ batch_stopped
    /\ Len(uploads) = 2
    /\ continue_on_error
    /\ IsErrorRow(batch_rows[1])
    /\ batch_i = 2
    /\ batch_rows[2].status = "ok"

(***************************************************************************)
(* Review artifacts: inputs, calls and specification                       *)
(***************************************************************************)
MaxPeople == 3
MaxSheetRows == 2

\* a people row by its canonical name and its email
NamedPerson(n, e) ==
    [c \in {"full_name_clean", "email_clean"} |->
        IF c = "full_name_clean" THEN n ELSE e]

\* people tables as read_csv gives them: a blank cell is a missing value
RECURSIVE PeopleTables(_)
PeopleTables(n) ==
    IF n = 0 THEN {<<>>}
    ELSE {Append(t, NamedPerson(name, e)) :
            t \in PeopleTables(n - 1),
            name \in {"john smith", "ann lee", NA},
            e \in {"a@x.co", "b@x.co", NA}}
         \cup PeopleTables(n - 1)

\* the collision tables given to the overwrite update: of two people of one
\* name, of these and a third row of that name without email, of nobody
CollisionTables ==
    {FindNameCollisions(p, 2).collisions :
        p \in {<<NamedPerson("john smith", "a@x.co"),
                 NamedPerson("john smith", "b@x.co")>>,
               <<NamedPerson("john smith", "a@x.co"),
                 NamedPerson("john smith", "b@x.co"),
                 NamedPerson("john smith", NA)>>,
               <<NamedPerson("ann lee", "a@x.co"),
                 NamedPerson("ann lee", "a@x.co"),
                 NamedPerson("ann lee", "b@x.co")>>,
               <<>>}}

\* a row of people_overwrite.xlsx as read with fillna("")
OverwriteRow(a, s, notes, n, e) ==
    [c \in REVIEW_COLS \cup {"full_name_clean", "email_clean"} |->
        CASE c = "action"          -> a
          [] c = "review_status"   -> s
          [] c = "reason"          -> ""
          [] c = "notes"           -> notes
          [] c = "full_name_clean" -> n
          [] OTHER                 -> e]

\* rows a reviewer has decided, left blank, added by hand, or mistyped
SheetRows ==
    {OverwriteRow("KEEP", "approved", "checked", "john smith", "a@x.co"),
     OverwriteRow("", "pending", "", "john smith", "b@x.co"),
     OverwriteRow("add ", "approved", "by hand", "john smith", "b@x.co"),
     OverwriteRow("ADD", "pending", "", "ann lee", "c@x.co"),
     OverwriteRow("REMOVE", "rejected", "", "ann lee", "a@x.co"),
     OverwriteRow("merge", "pending", "", "ann lee", "b@x.co"),
     OverwriteRow("keep", "approved", "", "john smith", "")}

RECURSIVE Sheets(_)
Sheets(n) ==
    IF n = 0 THEN {<<>>}
    ELSE {Append(t, r) : t \in Sheets(n - 1), r \in SheetRows}
         \cup Sheets(n - 1)

\* a call of find_name_collisions
CallFindNameCollisions(people, min_distinct_emails) ==
    /\ op = "init"
    /\ op' = "collisions"
    /\ collision_people' = people
    /\ min_emails' = min_distinct_emails
    /\ collision_names' =
            FindNameCollisions(people, min_distinct_emails).collision_names
    /\ collisions_master' =
            FindNameCollisions(people, min_distinct_emails).collisions
    /\ UNCHANGED <<masterVars, runs, matchVars, finalVars, batchVars,
                   overwrite_existing, overwrite_updated, unreviewed_args,
                   unreviewed_rows, cacheVars>>

\* a call of update_people_overwrite_with_new_collisions
CallUpdatePeopleOverwrite(overwrite_df, collisions_df) ==
    /\ op = "init"
    /\ op' = "overwrite"
    /\ collisions_master' = collisions_df
    /\ overwrite_existing' = overwrite_df
    /\ overwrite_updated' = UpdatePeopleOverwrite(overwrite_df, collisions_df)
    /\ UNCHANGED <<masterVars, runs, matchVars, finalVars, batchVars,
                   collision_people, min_emails, collision_names,
                   unreviewed_args, unreviewed_rows, cacheVars>>

\* the update applied to its own result, with the same collision table
UpdatePeopleOverwriteAgain ==
    /\ op = "overwrite"
    /\ op' = "overwrite_again"
    /\ overwrite_existing' = overwrite_updated
    /\ overwrite_updated' =
            UpdatePeopleOverwrite(overwrite_updated, collisions_master)
    /\ UNCHANGED <<masterVars, runs, matchVars, finalVars, batchVars,
                   collision_people, min_emails, collision_names,
                   collisions_master, unreviewed_args, unreviewed_rows,
                   cacheVars>>

\* a call of get_unreviewed_overwrite_rows
CallGetUnreviewedOverwriteRows(overwrite_df, include_add) ==
    /\ op = "init"
    /\ op' = "unreviewed"
    /\ unreviewed_args' =
            [overwrite_df |-> overwrite_df, include_add |-> include_add]
    /\ unreviewed_rows' = GetUnreviewedOverwriteRows(overwrite_df, include_add)
    /\ UNCHANGED <<masterVars, runs, matchVars, finalVars, batchVars,
                   collision_people, min_emails, collision_names,
                   collisions_master, overwrite_existing, overwrite_updated,
                   cacheVars>>

NextReview ==
    \/ /\ op = "init"
       /\ \E people \in PeopleTables(MaxPeople),
             min_distinct_emails \in {1, 2} :
            CallFindNameCollisions(people, min_distinct_emails)
    \/ /\ op = "init"
       /\ \E overwrite_df \in Sheets(MaxSheetRows),
             collisions_df \in CollisionTables :
            CallUpdatePeopleOverwrite(overwrite_df, collisions_df)
    \/ UpdatePeopleOverwriteAgain
    \/ /\ op = "init"
       /\ \E overwrite_df \in Sheets(MaxSheetRows), include_add \in BOOLEAN :
            CallGetUnreviewedOverwriteRows(overwrite_df, include_add)

SpecReview == Init /\ [][NextReview]_vars

(***************************************************************************)
(* Claims about the review artifacts                                       *)
(***************************************************************************)
\* the rows of a table with the given name and email
RowsNamed(rows, n, e) ==
    {i \in 1..Len(rows) :
        rows[i]["full_name_clean"] = n /\ rows[i]["email_clean"] = e}

\* the names of the last people table that the claim calls colliding
ClaimedCollisionNames ==
    {n \in {"john smith", "ann lee"} :
        Cardinality({e \in {"a@x.co", "b@x.co"} :
                        RowsNamed(collision_people, n, e) # {}})
            >= min_emails}

\* C23: the colliding names are the non-null names with at least
\* min_distinct_emails distinct non-null emails; the table holds the people
\* rows of these names and no other row, each with the number of rows of
\* its name and the number of distinct emails of its name, ordered by
\* distinct_email_count descending, name_count descending, name ascending.
C23_CollisionsExactAndSorted ==
    op = "collisions" =>
        /\ collision_names = ClaimedCollisionNames
        /\ \A n \in {"john smith", "ann lee", NA},
              e \in {"a@x.co", "b@x.co", NA} :
                Cardinality(RowsNamed(collisions_master, n, e)) =
                    IF n \in ClaimedCollisionNames
                    THEN Cardinality(RowsNamed(collision_people, n, e))
                    ELSE 0
        /\ \A i \in 1..Len(collisions_master) :
            LET r == collisions_master[i]
            IN  /\ r["name_count"] =
                    Cardinality({k \in 1..Len(collision_people) :
                        collision_people[k]["full_name_clean"]
                            = r["full_name_clean"]})
                /\ r["distinct_email_count"] =
                    Cardinality({e \in {"a@x.co", "b@x.co"} :
                        RowsNamed(collision_people,
                                  r["full_name_clean"], e) # {}})
        /\ \A i, j \in 1..Len(collisions_master) :
            i < j =>
                LET a == collisions_master[i]
                    b == collisions_master[j]
                IN  \/ a["distinct_email_count"] > b["distinct_email_count"]
                    \/ /\ a["distinct_email_count"] = b["distinct_email_count"]
                       /\ \/ a["name_count"] > b["name_count"]
                          \/ /\ a["name_count"] = b["name_count"]
                             /\ (a["full_name_clean"] = "ann lee"
                                    \/ b["full_name_clean"] = "john smith")

\* two names collide, the one with fewer emails is listed last, and a row
\* without a name is left out
C23_Witness ==
    /\ op = "collisions"
    /\ min_emails = 1
    /\ Len(collision_people) = 3
    /\ collision_names = {"john smith", "ann lee"}
    /\ Len(collisions_master) = 3
    /\ collisions_master[1]["full_name_clean"] = "john smith"
    /\ collisions_master[3]["full_name_clean"] = "ann lee"
    /\ collision_people[1]["full_name_clean"] = "ann lee"

\* whether an action cell reads ADD after trimming and upper-casing
IsAddCell(v) == v \in {"ADD", "add "}

\* whether an action cell reads KEEP, REMOVE or ADD
IsValidCell(v) == v \in {"KEEP", "keep", "REMOVE", " REMOVE", "ADD", "add "}

\* name || email of a row, a missing value as the empty text
NameEmailKey(r) ==
    (IF r["full_name_clean"] = NA THEN "" ELSE r["full_name_clean"])
    \o "||"
    \o (IF r["email_clean"] = NA THEN "" ELSE r["email_clean"])

\* the keys of the non-ADD rows of a sheet
NonAddKeys(sheet) ==
    {NameEmailKey(sheet[i]) :
        i \in {j \in 1..Len(sheet) : ~IsAddCell(sheet[j]["action"])}}

\* C24: the update keeps every existing row in place with its action,
\* review_status, reason and notes; every appended row is a collision row
\* whose key is not the key of an existing non-ADD row, with action "" and
\* review_status "pending"; a second update with the same collision table
\* appends nothing.
C24_UpdateKeepsEditsAndAppendsNewOnce ==
    op \in {"overwrite", "overwrite_again"} =>
        /\ Len(overwrite_updated) >= Len(overwrite_existing)
        /\ \A i \in 1..Len(overwrite_existing) :
            \A c \in REVIEW_COLS :
                overwrite_updated[i][c] = overwrite_existing[i][c]
        /\ \A i \in (Len(overwrite_existing) + 1)..Len(overwrite_updated) :
            /\ overwrite_updated[i]["action"] = ""
            /\ overwrite_updated[i]["review_status"] = "pending"
            /\ NameEmailKey(overwrite_updated[i])
                    \notin NonAddKeys(overwrite_existing)
            /\ \E k \in 1..Len(collisions_master) :
                    NameEmailKey(collisions_master[k])
                        = NameEmailKey(overwrite_updated[i])
        /\ op = "overwrite_again" =>
                Len(overwrite_updated) = Len(overwrite_existing)

\* C25: the query returns, in order, the rows whose action is not KEEP,
\* REMOVE or ADD after trimming and upper-casing, and with include_add
\* also the ADD rows; without include_add no ADD row is returned.
C25_UnreviewedRowsAndIncludeAdd ==
    op = "unreviewed" =>
        unreviewed_rows =
            SelectSeq(unreviewed_args.overwrite_df,
                LAMBDA r :
                    \/ ~IsValidCell(r["action"])
                    \/ unreviewed_args.include_add /\ IsAddCell(r["action"]))

(***************************************************************************)
(* Claims about the labels and the protected columns of the matcher        *)
(***************************************************************************)
\* whether the roster has a record with this name and ZIP
InRosterByNameZip(n, z) ==
    \E j \in 1..Len(ns) :
        ns[j]["full_name_clean"] = n /\ ns[j]["zip_clean"] = z

\* whether the roster has a record with this name
InRosterByName(n) ==
    \E j \in 1..Len(ns) : ns[j]["full_name_clean"] = n

C27_ProtectedColumnsUnchanged ==
    (op = "match" /\ match_args.protect_webinar_cols) =>
        /\ matched.error = ""
        /\ Len(matched.rows) = Len(webinar)
        /\ \A i \in 1..Len(matched.rows) :
            \A c \in DOMAIN webinar[i] :
                matched.rows[i][c] = webinar[i][c]

\* a protected call that keeps the roster ZIP; a row without ZIP is matched
\* by name to a client with a ZIP, a row is matched by email to a record
\* with another ZIP
C27_Witness ==
    /\ op = "match"
    /\ match_args.protect_webinar_cols
    /\ "zip_clean" \in match_args.ns_keep_cols
    /\ matched.error = ""
    /\ \E i \in 1..Len(matched.rows) :
        /\ matched.rows[i]["ns_match_source"] = "name"
        /\ webinar[i]["zip_clean"] = ""
        /\ \A j \in 1..Len(ns) :
            ns[j]["full_name_clean"] = webinar[i]["full_name_clean"]
                => ns[j]["zip_clean"] # ""
    /\ \E i \in 1..Len(matched.rows), j \in 1..Len(ns) :
        /\ matched.rows[i]["ns_match_source"] = "email"
        /\ ns[j]["email_clean"] = webinar[i]["email_clean"]
        /\ ns[j]["zip_clean"] # webinar[i]["zip_clean"]

(***************************************************************************)
(* Geo assignment cache: inputs, calls and specification                   *)
(***************************************************************************)
MaxZips == 2

Zips == {"90001", "90002", "01234"}

\* a computed assignment: the nearest center of a ZIP and its distance
Assignment(z, center) ==
    [c \in ZIP_COLS |->
        CASE c = "zip_clean"            -> z
          [] c = "Assigned Center Abbr" -> center
          [] OTHER -> IF center = "LBCC" THEN "3.2" ELSE "7.5"]

\* the rows compute_zip_to_center can return: one row per ZIP
RECURSIVE AssignmentRows(_)
AssignmentRows(n) ==
    IF n = 0 THEN {<<>>}
    ELSE {Append(t, Assignment(z, center)) :
            t \in {u \in AssignmentRows(n - 1) : Len(u) = n - 1},
            z \in Zips, center \in {"LBCC", "PCC"}}
         \cup AssignmentRows(n - 1)

\* the frames compute_zip_to_center can return: rows with the columns
\* ZIP_COLS, or no row and the columns of its empty branch
AssignmentFrames ==
    {[columns |-> ZIP_COLS, rows |-> t] :
        t \in {u \in AssignmentRows(MaxZips) :
                /\ Len(u) > 0
                /\ \A i, j \in 1..Len(u) :
                        i # j => u[i]["zip_clean"] # u[j]["zip_clean"]}}
    \cup {[columns |-> EMPTY_ASSIGN_COLS, rows |-> <<>>]}

\* a call of update_zip_center_cache
CallUpdateZipCenterCache(new_df) ==
    /\ runs < MaxRuns
    /\ runs' = runs + 1
    /\ op' = "cache"
    /\ zip_to_center_new' = new_df.rows
    /\ zip_cache_before' = zip_cache
    /\ zip_cache' = UpdateZipCenterCache(new_df, zip_cache)
    /\ UNCHANGED <<masterVars, matchVars, finalVars, batchVars, reviewVars>>

NextCache ==
    \E new_df \in AssignmentFrames : CallUpdateZipCenterCache(new_df)

SpecCache == Init /\ [][NextCache]_vars

(***************************************************************************)
(* Claims about the geo assignment cache                                   *)
(***************************************************************************)
\* the entries of a ZIP in a table, as (center, distance)
EntriesOf(rows, z) ==
    {<<rows[i]["Assigned Center Abbr"], rows[i]["distance_miles"]>> :
        i \in {j \in 1..Len(rows) : rows[j]["zip_clean"] = z}}

ZipsOf(rows) == {rows[i]["zip_clean"] : i \in 1..Len(rows)}

\* C28: after every update the cache has exactly one entry for each ZIP of
\* the previous cache or of the new assignments and no other; the entry of
\* a ZIP of the new assignments is the new one, the entry of any other ZIP
\* is the one the previous cache had.
C28_CacheLastWriteWins ==
    op = "cache" =>
        /\ ZipsOf(zip_cache) = ZipsOf(zip_cache_before)
                                    \cup ZipsOf(zip_to_center_new)
        /\ \A z \in ZipsOf(zip_cache) :
            /\ Cardinality({i \in 1..Len(zip_cache) :
                                zip_cache[i]["zip_clean"] = z}) = 1
            /\ EntriesOf(zip_cache, z) =
                    IF z \in ZipsOf(zip_to_center_new)
                    THEN EntriesOf(zip_to_center_new, z)
                    ELSE EntriesOf(zip_cache_before, z)

\* an update that brings another center for a cached ZIP and leaves a
\* second cached ZIP, one with a leading zero, alone
C28_Witness ==
    /\ op = "cache"
    /\ runs = 2
    /\ \E z \in ZipsOf(zip_cache_before) \cap ZipsOf(zip_to_center_new) :
            EntriesOf(zip_cache_before, z) # EntriesOf(zip_to_center_new, z)
    /\ "01234" \in ZipsOf(zip_cache_before) \ ZipsOf(zip_to_center_new)

(***************************************************************************)
(* Claims about the counters of a run and the growth of the masters        *)
(***************************************************************************)
\* no two rows of a frame have the same composite key
UniqueKeys(rows) ==
    \A i, j \in 1..Len(rows) :
        i # j => AttendanceKey(rows[i]) # AttendanceKey(rows[j])

\* C29: in every run that reads an attendance master with unique composite
\* keys, attendance_after = attendance_before + attendance_added, and
\* attendance_added + attendance_overwritten is the number of distinct
\* composite keys of the session.
C29_AttendanceCountersAddUp ==
    (op = "run" /\ UniqueKeys(attendance_before_df)) =>
        /\ summary.attendance_after
                = summary.attendance_before + summary.attendance_added
        /\ summary.attendance_added + summary.attendance_overwritten
                = Cardinality(KeysOf(AttendanceOf(session)))

\* a run on a master with rows whose session adds one key and overwrites
\* another
C29_Witness ==
    /\ op = "run"
    /\ UniqueKeys(attendance_before_df)
    /\ summary.attendance_before > 0
    /\ summary.attendance_added > 0
    /\ summary.attendance_overwritten > 0

\* C30: the masters only grow. Every upsert keeps every composite key of
\* the attendance master, keeps the row of a key that the session does not
\* contain as it was, and keeps every email of the people master.
C30_MastersOnlyGrow ==
    [][op' \in {"run", "attendance"} =>
        /\ KeysOf(attendance_master) \subseteq KeysOf(attendance_master')
        /\ \A i \in 1..Len(attendance_master) :
            AttendanceKey(attendance_master[i])
                    \notin KeysOf(AttendanceOf(session'))
                => \E j \in 1..Len(attendance_master') :
                        attendance_master'[j] = attendance_master[i]
        /\ EmailsOf(people_master) \subseteq EmailsOf(people_master')]_vars

====
